---- MODULE Spec2Model ----
(***************************************************************************)
(* Resumable download / delete engine of icloud-photos-backup.             *)
(*                                                                         *)
(*   SpecDL  : smart_download.main, run repeatedly against one remote      *)
(*             collection (download + index, checkpoint, resume).          *)
(*   SpecDel : icloud_delete_fast.main / delete_by_criteria.main (the two  *)
(*             share the search loop and the batch loop line for line),    *)
(*             run repeatedly against one candidate set.                   *)
(*   SpecSel : delete_by_criteria, the candidate scan (matches_criteria).  *)
(*   SpecGrow: SpecDL with assets added at the head of the collection      *)
(*             between runs.                                               *)
(*   SpecRef : update_index_metadata.main, the metadata refresh pass.      *)
(*   SpecStore : save_progress / load_progress on the progress file, with  *)
(*             the process dying at any point of a save.                   *)
(*   SpecTrash : move_to_trash of the cleanup tools.                       *)
(*                                                                         *)
(* The remote collection is a sequence of assets.  The enumerator hands    *)
(* out remote[1], remote[2], ... and, when `cyclic`, silently restarts     *)
(* from the beginning once exhausted.  Thresholds that are 500 / 100 / 50 /*)
(* 10 / 15000 in the source are scaled down; every formula below is        *)
(* written against the names, not the values.                              *)
(***************************************************************************)
EXTENDS Integers, Sequences, FiniteSets, TLC

\* ---------------------------------------------------------------- bounds
MaxAssets == 2      \* longest remote collection of SpecDL
MaxDelAssets == 3   \* longest remote collection of SpecDel
MaxRuns == 2        \* process starts per behaviour
MaxPos == 7         \* cap on photo_num (a pass over failing items never ends)

\* scaled program thresholds (source value in the comment)
MAX_CONSECUTIVE_DUPLICATES == 2   \* 500, smart_download.py:327
MAX_CONSECUTIVE_OLD == 2          \* 100, smart_download.py:330
SAVE_PROGRESS_EVERY == 2          \* 50,  smart_download.py:43
BATCH_SIZE == 2                   \* 10,  icloud_delete_fast.py:31
MAX_SEARCH_PHOTOS == 3            \* 15000, icloud_delete_fast.py:33
\* program constant, kept
RETRY_ATTEMPTS == 3               \* smart_download.py:41

\* refresh pass (update_index_metadata.py)
MaxRefAssets == 2                 \* longest remote collection of SpecRef
MaxChecked == 6                   \* cap on checked
REFRESH_SAVE_EVERY == 2           \* 50,  update_index_metadata.py:177
REFRESH_MAX_DUPLICATES == 2       \* 500, update_index_metadata.py:138
\* progress store and trash
MaxIndex == 1                     \* largest last_index of SpecStore
MaxClock == 1                     \* seconds that pass in SpecTrash
MaxFiles == 4                     \* files created in SpecTrash
MaxNew == 4                       \* new downloads of a session in SpecMail

Filenames == {"a", "b"}
NoFile == "-"

\* SpecDel: the deletion candidates (files_in_index / candidates) and the
\* assets of the collection; "x" is a filename that is no candidate, and an
\* asset whose filename cannot be read needs no name
Candidates == {"a", "b", "c"}
DelAssets == [fn : Candidates \cup {"x"}, kind : {"ok"}] \cup {[fn |-> NoFile, kind |-> "bad"]}

VARIABLES
  \* ---- environment
  remote,        \* the remote collection: Seq of [id, fn, kind]
  cyclic,        \* the enumerator restarts silently when exhausted
  recent,        \* the task is run with --recent (cutoff date set)
  disk,          \* state of the target file of each filename
  \* ---- persisted state
  progFile,      \* download_progress.json
  indexFile,     \* icloud_index.json
  \* ---- smart_download.main locals
  pc, progress, downloaded, skipped, failed, downloaded_set, start_idx,
  photo_metadata, indexed_filenames, seen_filenames, photo_num,
  consecutive_duplicates, consecutive_old_photos,
  cur,           \* the item held by the loop body (photo)
  attempt,       \* download_photo_with_retry: attempt
  \* ---- observation (history) variables
  runNo,         \* processes started so far
  exitBy,        \* how the last process ended
  endReason,     \* why the last for-loop ended
  dlSeqs,        \* per filename: download_photo_with_retry calls, this run
  dlCalls,       \* photo.download() calls of the current retry sequence
  sleeps,        \* retry delays of the current retry sequence
  lastResult,    \* outcome of the last finished retry sequence
  prevExit,      \* exitBy of the previous process, taken at start
  recordedAtStart, \* filenames in downloaded_files / failed_files at start
  sizeAtStart,   \* Cardinality(downloaded_files) at start
  truncated,     \* filename whose download an interrupt left missing or empty
  failedRun,     \* filenames whose retry sequence was exhausted, this run
  \* ---- delete task: persisted state
  delProgFile,   \* delete_progress_fast.json / delete_by_criteria_progress.json
  \* ---- icloud_delete_fast.main locals (progress, failed, skipped, pc shared)
  deleted, deleted_set, failed_set, remaining_filenames, photo_map, count,
  batch,
  todo,          \* filenames the for-loop over remaining_filenames has not reached
  bpos,          \* position of the flush loop in batch
  \* ---- delete task: observation variables
  delOk,         \* filenames whose delete() returned, this run
  delErr,        \* filenames whose delete() raised, this run
  delCalls,      \* per filename: delete() invocations, this run
  flushes,       \* sizes of the batches flushed, this run
  unsaved,       \* filenames of flushed deletes not yet followed by a save
  removed,       \* per filename: remote assets deleted, all runs
  deletedAtStart, failedAtStart, \* the recorded sets as loaded at start
  delSkip,       \* filenames tallied skipped (not found), this run
  \* ---- delete_by_criteria: the candidate scan (lines 237-240)
  criteria,      \* the rule configuration in force
  record,        \* the index record under evaluation (meta)
  result,        \* what matches_criteria returned for it
  isCandidate,   \* the record was appended to candidates
  \* ---- growth of the collection between runs (SpecGrow)
  headAddedAt,   \* runNo after which an asset was added at the head, 0: none
  \* ---- update_index_metadata.main
  refRemote,     \* the remote collection: Seq of [fn, kind]
  refCyclic,     \* the enumerator restarts silently when exhausted
  refIndex,      \* icloud_index.json: [metadata, updated_at]
  refPc,         \* "idle" or "loop"
  refMetadata,   \* the in-memory metadata dict (metadata)
  updated, checked, needs_update,
  refSeen,       \* seen_filenames
  refDuplicates, \* consecutive_duplicates
  refExit,       \* how the last refresh process ended
  refRuns,       \* refresh processes started so far
  \* ---- save_progress / load_progress
  stFile,        \* text of the progress file: Seq of tokens
  stPc,          \* "idle", or "writing" inside save_progress
  stArg,         \* the state handed to the save in progress / last save
  stPrev,        \* the state of the last save that returned
  stLoaded,      \* what the last load_progress produced
  \* ---- move_to_trash
  trSrc,         \* per source path: the file there (0: none)
  trTrash,       \* per path under TRASH_DIR: the file there (0: none)
  trClock,       \* datetime.now(), in seconds
  trNext,        \* files created so far
  trMoved,       \* files for which move_to_trash returned True
  trRet,         \* return value of the last move_to_trash
  \* ---- the confirmation prompt of the delete tasks
  response,      \* what the last input() of a delete run returned
  \* ---- send_summary_email
  verbose,       \* args.verbose
  photo_locations, \* session_stats['photo_locations'], a dict in insertion
                 \* order: Seq of [location, count]
  body,          \* the per-location lines of the email body, in order
  mailPc         \* "session" while downloads are tracked, then "done"

envVars == <<remote, cyclic, recent, disk>>
fileVars == <<progFile, indexFile>>
locVars == <<progress, downloaded, skipped, failed, downloaded_set, start_idx,
             photo_metadata, indexed_filenames, seen_filenames, photo_num,
             consecutive_duplicates, consecutive_old_photos, cur, attempt>>
histVars == <<runNo, exitBy, endReason, dlSeqs, dlCalls, sleeps, lastResult,
              prevExit, recordedAtStart, sizeAtStart, truncated, failedRun>>
delVars == <<delProgFile, deleted, deleted_set, failed_set, remaining_filenames,
             photo_map, count, batch, todo, bpos, delOk, delErr, delCalls,
             flushes, unsaved, removed, deletedAtStart, failedAtStart, delSkip>>
selVars == <<criteria, record, result, isCandidate>>
dlOnlyVars == <<recent, disk, fileVars, downloaded, downloaded_set, start_idx,
                photo_metadata, indexed_filenames, seen_filenames, photo_num,
                consecutive_duplicates, consecutive_old_photos, cur, attempt,
                dlSeqs, dlCalls, sleeps, lastResult, recordedAtStart,
                sizeAtStart, truncated, failedRun>>
refVars == <<refRemote, refCyclic, refIndex, refPc, refMetadata, updated, checked,
             needs_update, refSeen, refDuplicates, refExit, refRuns>>
stVars == <<stFile, stPc, stArg, stPrev, stLoaded>>
trVars == <<trSrc, trTrash, trClock, trNext, trMoved, trRet>>
gateVars == <<response>>
mailVars == <<verbose, photo_locations, body, mailPc>>
miscVars == <<gateVars, mailVars>>
auxVars == <<headAddedAt, miscVars, refVars, stVars, trVars>>
engineVars == <<envVars, fileVars, pc, locVars, histVars, delVars, selVars>>
vars == <<engineVars, auxVars>>

\* ------------------------------------------------------------ helpers
RECURSIVE SeqsUpTo(_, _)
SeqsUpTo(S, n) ==
  IF n = 0 THEN {<<>>}
  ELSE LET shorter == SeqsUpTo(S, n - 1)
       IN shorter \cup {Append(s, x) : s \in {t \in shorter : Len(t) = n - 1}, x \in S}

WithIds(s) == [i \in 1..Len(s) |-> [id |-> i, fn |-> s[i].fn, kind |-> s[i].kind]]

\* load_progress() when no file exists
EmptyProgress ==
  [downloaded_files |-> {}, failed_files |-> <<>>, last_index |-> 0,
   stats |-> [downloaded |-> 0, skipped |-> 0, failed |-> 0]]

\* load_index() when no file exists
EmptyIndex == [filenames |-> {}, metadata |-> {}, photo_count |-> 0]

FailedNames(p) == {p.failed_files[i].filename : i \in 1..Len(p.failed_files)}

\* file_exists_and_valid(filepath): exists and st_size > 0
file_exists_and_valid(f) == disk[f] \in {"partial", "full"}

\* the enumerator: item number k of one iteration of photos_album
ItemAt(k) == remote[((k - 1) % Len(remote)) + 1]
HasNext(k) == Len(remote) > 0 /\ (cyclic \/ k < Len(remote))

\* line 462
CheckpointDue(n) == n % SAVE_PROGRESS_EVERY = 0

\* line 379
CycleDetected(c) == c > MAX_CONSECUTIVE_DUPLICATES

\* a cutoff test that needs one old item more
CutoffReached_m(c) == c > MAX_CONSECUTIVE_OLD

\* line 364
CutoffReached(c) == c >= MAX_CONSECUTIVE_OLD

\* a resume test that lets the item at the resume position through
BeforeResumePoint_m(n) == n < start_idx

\* line 336
BeforeResumePoint(n) == n <= start_idx

\* a retry loop that allows one attempt too many
RetryAgain_m(a) == a < RETRY_ATTEMPTS

\* line 110: another attempt follows a failed one
RetryAgain(a) == a < RETRY_ATTEMPTS - 1

\* a save that counts the cursor from the resume point
ProgressWith_m(p, n, dset, d, s, f) ==
  [p EXCEPT !.last_index = n - start_idx, !.downloaded_files = dset,
            !.stats = [downloaded |-> d, skipped |-> s, failed |-> f]]

\* the progress dict with the fields main() assigns before a save
ProgressWith(p, n, dset, d, s, f) ==
  [p EXCEPT !.last_index = n, !.downloaded_files = dset,
            !.stats = [downloaded |-> d, skipped |-> s, failed |-> f]]

\* a save that writes only the records the file does not hold yet
IndexWith_m(names, meta) ==
  [filenames |-> names \ indexFile.filenames,
   metadata |-> meta \ indexFile.metadata,
   photo_count |-> Cardinality(names \ indexFile.filenames)]

\* lines 473-475 / 493-495 / 521-523: the index as main() assigns it before
\* a save
IndexWith(names, meta) ==
  [filenames |-> names, metadata |-> meta, photo_count |-> Cardinality(names)]

\* the cutoff filter of lines 344-374 lets the item through
PassesCutoff(item) == ~(recent /\ item.kind = "old")

\* line 374: the counter is reset only when a cutoff date is set
OldReset == IF recent THEN 0 ELSE consecutive_old_photos

\* load_progress() of the delete tasks when no file exists
EmptyDelProgress ==
  [deleted_files |-> {}, failed_files |-> {},
   stats |-> [deleted |-> 0, failed |-> 0, skipped |-> 0]]

\* ------------------------------------------------------------ candidate selection
\* delete_by_criteria.py: matches_criteria over the records of the index.
\* None is the empty tuple, a value v is <<v>>.  Sizes are bytes, ages are
\* whole days (timedelta.days), rule parameters are years / MB / seconds.
MaxRules == 2       \* longest rule list of the video kind

\* lines 29-43
DEFAULT_CRITERIA ==
  [photos |-> [enabled |-> TRUE, rules |-> <<>>],
   videos |-> [enabled |-> TRUE,
               rules |-> << [type |-> "age_and_size", min_age_years |-> 2,
                             min_size_mb |-> 100],
                            [type |-> "age_and_duration", min_age_years |-> 1,
                             max_duration_sec |-> 5] >>]]

\* the rules a configuration may list: the two defaults and a laxer size rule
Rules ==
  {DEFAULT_CRITERIA.videos.rules[1], DEFAULT_CRITERIA.videos.rules[2],
   [type |-> "age_and_size", min_age_years |-> 1, min_size_mb |-> 50]}

Configs ==
  [photos : [enabled : BOOLEAN, rules : {<<>>}],
   videos : [enabled : BOOLEAN, rules : SeqsUpTo(Rules, MaxRules)]]

\* the 'created' field of an index record: absent / None, the empty string,
\* a string fromisoformat rejects, or an ISO date that many days before now
CreatedValues ==
  [form : {"null", "empty", "garbage"}, days : {0}]
    \cup [form : {"iso"}, days : {-30, 0, 183, 400, 731, 1096}]

\* index records as smart_download writes them (lines 390-400), with the
\* duration a rule may ask for; the index itself carries none
MetaRecords ==
  [item_type : {"movie", "image", "null"},
   created : CreatedValues,
   size : {<<>>} \cup {<<mb * 1024 * 1024>> : mb \in {50, 90, 100, 200}},
   duration : {<<>>, <<3>>, <<10>>}]

\* before the scan has looked at any record
NoMeta ==
  [item_type |-> "null", created |-> [form |-> "null", days |-> 0],
   size |-> <<>>, duration |-> <<>>]

\* matches_criteria's `return False, None`
NoMatch == [matches |-> FALSE, reason |-> "null"]

\* lines 80-89: None for a missing, empty or unparseable string, else the
\* age; the age is kept in days, age_years being days / 365.25
get_file_age_years(date_str) ==
  IF date_str.form = "iso" THEN <<date_str.days>> ELSE <<>>

\* an age test that lets a record without an age through
AgeAtLeast_m(age, years) ==
  \/ age = <<>>
  \/ age[1] # 0 /\ age[1] * 100 >= years * 36525

\* line 100: age_years and age_years >= rule['min_age_years']
AgeAtLeast(age, years) ==
  /\ age # <<>>
  /\ age[1] # 0
  /\ age[1] * 100 >= years * 36525

\* line 98: (metadata.get('size') or 0) / (1024 * 1024) >= rule['min_size_mb']
SizeAtLeast(size, mb) ==
  (IF size = <<>> THEN 0 ELSE size[1]) >= mb * 1024 * 1024

\* lines 95-107: the loop over the video rules, from rule i on
RECURSIVE VideoRules(_, _, _)
VideoRules(metadata, rules, i) ==
  IF i > Len(rules) THEN NoMatch
  ELSE IF /\ rules[i].type = "age_and_size"
          /\ AgeAtLeast(get_file_age_years(metadata.created), rules[i].min_age_years)
          /\ SizeAtLeast(metadata.size, rules[i].min_size_mb)
         THEN [matches |-> TRUE, reason |-> "Old large video"]
         ELSE VideoRules(metadata, rules, i + 1)

\* lines 91-115
matches_criteria(metadata, crit) ==
  IF metadata.item_type = "movie" /\ crit.videos.enabled
    THEN VideoRules(metadata, crit.videos.rules, 1)
    ELSE NoMatch

\* ---------------------------------------------- refresh pass: data
\* filenames of index records; "x" is a remote filename the index lacks
RefNames == {"a", "b", "c", "d"}
\* an IndexRecord as far as the pass reads or writes it: asset_date is
\* missing (None) or set; size stands for the fields the update overwrites
\* ("s0": as indexed, "s1": as the remote collection reports it now)
RefRecords == [asset_date : {"none", "set"}, size : {"s0"}]
\* kind "ok": all fields readable and asset_date present; "nodate":
\* asset_date absent; "err": reading a field for the update raises;
\* "bad": photo.filename raises
RefAssets == [fn : RefNames, kind : {"ok", "nodate"}]
               \cup {[fn |-> "a", kind |-> "err"], [fn |-> "x", kind |-> "ok"],
                     [fn |-> NoFile, kind |-> "bad"]}
\* the index at the start: "d" has its asset_date, the others may lack it
RefIndexes == {m \in [RefNames -> RefRecords] : m["d"].asset_date = "set"}
NoMetadata == [f \in {} |-> [asset_date |-> "none", size |-> "s0"]]

\* ---------------------------------------------- progress store: data
\* the progress state as far as a save writes it
StStates == [last_index : 0..MaxIndex, downloaded_files : SUBSET {"a"}]
\* json.dump(progress, f): the text of a state, token by token
Encode(s) ==
  << [tok |-> "{", files |-> {}, idx |-> 0],
     [tok |-> "downloaded_files", files |-> s.downloaded_files, idx |-> 0],
     [tok |-> "last_index", files |-> {}, idx |-> s.last_index],
     [tok |-> "}", files |-> {}, idx |-> 0] >>
\* json.load(f): the state a text denotes; a text that is not a complete
\* document raises JSONDecodeError
Decode(text) ==
  IF /\ Len(text) = 4
     /\ text[1].tok = "{" /\ text[2].tok = "downloaded_files"
     /\ text[3].tok = "last_index" /\ text[4].tok = "}"
  THEN [kind |-> "state",
        value |-> [last_index |-> text[3].idx,
                   downloaded_files |-> text[2].files]]
  ELSE [kind |-> "error",
        value |-> [last_index |-> 0, downloaded_files |-> {}]]
NotLoaded == [kind |-> "none", value |-> [last_index |-> 0, downloaded_files |-> {}]]

\* ---------------------------------------------- trash: data
\* source paths: one below BACKUP_DIR, three elsewhere, all named v.mov
TrSources == {"backup/2020/v.mov", "ext1/v.mov", "ext2/v.mov", "ext3/v.mov"}
\* video_cleanup_review.py:35: the path relative to BACKUP_DIR, else the name
rel_path(src) == IF src = "backup/2020/v.mov" THEN "2020/v.mov" ELSE "v.mov"
NoStamp == -1
\* paths under TRASH_DIR: rel_path, or rel_path with _<timestamp> added to
\* the stem
TrashPaths == [rel : {"2020/v.mov", "v.mov"}, stamp : {NoStamp} \cup 0..MaxClock]

InitRefIdle ==
  /\ refRemote = <<>> /\ refCyclic = FALSE
  /\ refIndex = [metadata |-> NoMetadata, updated_at |-> 0]
  /\ refPc = "idle" /\ refMetadata = NoMetadata
  /\ updated = 0 /\ checked = 0 /\ needs_update = 0
  /\ refSeen = {} /\ refDuplicates = 0 /\ refExit = "none" /\ refRuns = 0

InitStIdle ==
  /\ stFile = <<>> /\ stPc = "idle"
  /\ stArg = [last_index |-> 0, downloaded_files |-> {}]
  /\ stPrev = [last_index |-> 0, downloaded_files |-> {}]
  /\ stLoaded = NotLoaded

InitTrIdle ==
  /\ trSrc = [p \in TrSources |-> 0] /\ trTrash = [q \in TrashPaths |-> 0]
  /\ trClock = 0 /\ trNext = 0 /\ trMoved = {} /\ trRet = FALSE

\* answers typed at the confirmation prompt; NoAnswer: nothing was asked
NoAnswer == "-"
Answers == {"yes", "Y", "no", ""}

\* no delete run has asked yet
InitGateIdle == response = NoAnswer

\* lines 307-311: the session statistics before any download
InitMailIdle ==
  /\ verbose = FALSE /\ photo_locations = <<>> /\ body = <<>> /\ mailPc = "session"

InitMiscIdle == InitGateIdle /\ InitMailIdle

InitAuxVars ==
  /\ headAddedAt = 0 /\ InitMiscIdle
  /\ InitRefIdle /\ InitStIdle /\ InitTrIdle

InitSelVars ==
  /\ criteria = DEFAULT_CRITERIA /\ record = NoMeta
  /\ result = NoMatch /\ isCandidate = FALSE

\* ------------------------------------------------------------ Init
InitDelVars ==
  /\ delProgFile = EmptyDelProgress
  /\ deleted = 0 /\ deleted_set = {} /\ failed_set = {}
  /\ remaining_filenames = {} /\ photo_map = <<>> /\ count = 0
  /\ batch = <<>> /\ todo = {} /\ bpos = 0
  /\ delOk = {} /\ delErr = {} /\ delCalls = [f \in Candidates |-> 0]
  /\ flushes = <<>> /\ unsaved = {} /\ removed = [f \in Candidates |-> 0]
  /\ deletedAtStart = {} /\ failedAtStart = {} /\ delSkip = {}

\* What archive/icloud_download_resilient.py (same progress file, no index)
\* leaves when it downloaded the first item and was interrupted while reading
\* the second: lines 238 and 258-268 of that script
LegacyProgress(r) ==
  [downloaded_files |-> {r[1].fn}, failed_files |-> <<>>, last_index |-> 2,
   stats |-> [downloaded |-> 1, skipped |-> 0, failed |-> 0]]

\* the backup directory is new, or was used by the earlier downloader
PriorProgress(r, cyc) ==
  {EmptyProgress} \cup
  (IF r[1].kind \in {"ok", "old"} /\ (cyc \/ Len(r) > 1) THEN {LegacyProgress(r)} ELSE {})

\* SpecDL: the assets of the collection.  An asset is "old" relative to the
\* cutoff date, so there is none without --recent; an asset whose filename
\* cannot be read needs no name
DLAssets(rec) ==
  [fn : Filenames, kind : IF rec THEN {"ok", "old", "nocreated"} ELSE {"ok", "nocreated"}]
    \cup {[fn |-> NoFile, kind |-> "bad"]}

\* a full run of assets older than the cutoff: the listing is by the order
\* the service keeps, which need not be the order of the dates compared
OldRun == [i \in 1..MAX_CONSECUTIVE_OLD |-> [fn |-> "a", kind |-> "old"]]

\* SpecDL: the collections photos_album may list: any short one, and with a
\* cutoff date also those that open with a full run of old assets
Collections(rec) ==
  (SeqsUpTo(DLAssets(rec), MaxAssets) \ {<<>>})
    \cup (IF rec THEN {OldRun \o s : s \in SeqsUpTo(DLAssets(rec), MaxAssets - 1)}
                 ELSE {})

InitDL ==
  /\ recent \in BOOLEAN
  /\ remote \in {WithIds(s) : s \in Collections(recent)}
  /\ cyclic \in BOOLEAN
  /\ progFile \in PriorProgress(remote, cyclic)
  /\ disk = [f \in Filenames |-> IF f \in progFile.downloaded_files THEN "full" ELSE "none"]
  /\ indexFile = EmptyIndex
  /\ pc = "idle"
  /\ progress = EmptyProgress
  /\ downloaded = 0 /\ skipped = 0 /\ failed = 0
  /\ downloaded_set = {} /\ start_idx = 0
  /\ photo_metadata = {} /\ indexed_filenames = {} /\ seen_filenames = {}
  /\ photo_num = 0 /\ consecutive_duplicates = 0 /\ consecutive_old_photos = 0
  /\ cur = NoFile /\ attempt = 0
  /\ runNo = 0 /\ exitBy = "none" /\ endReason = "none"
  /\ dlSeqs = [f \in Filenames |-> 0] /\ dlCalls = 0 /\ sleeps = 0
  /\ lastResult = "none" /\ prevExit = "none"
  /\ recordedAtStart = {} /\ sizeAtStart = 0 /\ truncated = NoFile
  /\ failedRun = {}
  /\ InitDelVars
  /\ InitAuxVars
  /\ InitSelVars

\* ------------------------------------------------------------ smart_download.main
\* lines 266-330: load progress and index, set up the locals
Start ==
  /\ pc = "idle" /\ runNo < MaxRuns
  /\ pc' = "iter"
  /\ progress' = progFile
  /\ downloaded' = progFile.stats.downloaded
  /\ skipped' = progFile.stats.skipped
  /\ failed' = progFile.stats.failed
  /\ downloaded_set' = progFile.downloaded_files
  /\ start_idx' = progFile.last_index
  /\ photo_metadata' = indexFile.metadata
  /\ indexed_filenames' = indexFile.filenames
  /\ seen_filenames' = indexFile.filenames
  /\ photo_num' = 0 /\ consecutive_duplicates' = 0 /\ consecutive_old_photos' = 0
  /\ cur' = NoFile /\ attempt' = 0
  /\ runNo' = runNo + 1 /\ prevExit' = exitBy /\ exitBy' = "running"
  /\ endReason' = "none"
  /\ dlSeqs' = [f \in Filenames |-> 0] /\ dlCalls' = 0 /\ sleeps' = 0
  /\ lastResult' = "none"
  /\ recordedAtStart' = progFile.downloaded_files \cup FailedNames(progFile)
  /\ sizeAtStart' = Cardinality(progFile.downloaded_files)
  /\ truncated' = IF exitBy = "interrupt" THEN truncated ELSE NoFile
  /\ failedRun' = {}
  /\ UNCHANGED <<auxVars, selVars, delVars, envVars, fileVars>>

\* lines 506-530: final save of progress and index, the process ends normally
FinalSave(n, why) ==
  /\ progress' = ProgressWith(progress, n, downloaded_set, downloaded, skipped, failed)
  /\ progFile' = progress'
  /\ indexFile' = IndexWith(indexed_filenames, photo_metadata)
  /\ pc' = "idle" /\ exitBy' = "complete" /\ endReason' = why

\* lines 480-499: the KeyboardInterrupt handler of the loop body
InterruptSave(n, dset, meta, names) ==
  /\ progress' = ProgressWith(progress, n, dset, downloaded, skipped, failed)
  /\ progFile' = progress'
  /\ indexFile' = IndexWith(names, meta)
  /\ pc' = "idle" /\ exitBy' = "interrupt"

\* the enumerator produces item photo_num + 1
Produces(n) == pc = "iter" /\ HasNext(photo_num) /\ photo_num < MaxPos /\ n = photo_num + 1

\* lines 333-337: item at or before the resume point
SkipResumed ==
  \E n \in 1..MaxPos :
    /\ Produces(n) /\ BeforeResumePoint(n)
    /\ photo_num' = n
    /\ UNCHANGED <<auxVars, selVars, delVars, envVars, fileVars, pc, progress, downloaded, skipped, failed,
                   downloaded_set, start_idx, photo_metadata, indexed_filenames,
                   seen_filenames, consecutive_duplicates, consecutive_old_photos,
                   cur, attempt, histVars>>

\* a field error that ends the pass like a transport error
FieldError_m ==
  \E n \in 1..MaxPos :
    /\ Produces(n) /\ ~BeforeResumePoint(n)
    /\ ItemAt(n).kind = "bad"
    /\ photo_num' = n /\ failed' = failed + 1
    /\ progFile' = progress
    /\ pc' = "idle" /\ exitBy' = "fatal"
    /\ UNCHANGED <<auxVars, selVars, delVars, envVars, indexFile, progress, downloaded, skipped,
                   downloaded_set, start_idx, photo_metadata, indexed_filenames,
                   seen_filenames, consecutive_duplicates, consecutive_old_photos,
                   cur, attempt, runNo, endReason, dlSeqs, dlCalls, sleeps,
                   lastResult, prevExit, recordedAtStart, sizeAtStart, truncated,
                   failedRun>>

\* lines 340, 501-504: photo.filename raises, the item is counted failed
FieldError ==
  \E n \in 1..MaxPos :
    /\ Produces(n) /\ ~BeforeResumePoint(n)
    /\ ItemAt(n).kind = "bad"
    /\ photo_num' = n /\ failed' = failed + 1
    /\ UNCHANGED <<auxVars, selVars, delVars, envVars, fileVars, pc, progress, downloaded, skipped,
                   downloaded_set, start_idx, photo_metadata, indexed_filenames,
                   seen_filenames, consecutive_duplicates, consecutive_old_photos,
                   cur, attempt, histVars>>

\* lines 359-371: item older than the cutoff
SkipOld ==
  \E n \in 1..MaxPos :
    /\ Produces(n) /\ ~BeforeResumePoint(n)
    /\ ItemAt(n).kind # "bad" /\ ~PassesCutoff(ItemAt(n))
    /\ photo_num' = n
    /\ consecutive_old_photos' = consecutive_old_photos + 1
    /\ IF CutoffReached(consecutive_old_photos + 1)
         THEN FinalSave(n, "cutoff")
         ELSE UNCHANGED <<fileVars, pc, progress, exitBy, endReason>>
    /\ UNCHANGED <<auxVars, selVars, delVars, envVars, downloaded, skipped, failed, downloaded_set, start_idx,
                   photo_metadata, indexed_filenames, seen_filenames,
                   consecutive_duplicates, cur, attempt,
                   runNo, dlSeqs, dlCalls, sleeps, lastResult, prevExit,
                   recordedAtStart, sizeAtStart, truncated, failedRun>>

\* lines 377-383: filename already seen
Duplicate ==
  \E n \in 1..MaxPos :
    /\ Produces(n) /\ ~BeforeResumePoint(n)
    /\ ItemAt(n).kind # "bad" /\ PassesCutoff(ItemAt(n))
    /\ ItemAt(n).fn \in seen_filenames
    /\ photo_num' = n
    /\ consecutive_old_photos' = OldReset
    /\ consecutive_duplicates' = consecutive_duplicates + 1
    /\ IF CycleDetected(consecutive_duplicates + 1)
         THEN FinalSave(n, "cycle")
         ELSE UNCHANGED <<fileVars, pc, progress, exitBy, endReason>>
    /\ UNCHANGED <<auxVars, selVars, delVars, envVars, downloaded, skipped, failed, downloaded_set, start_idx,
                   photo_metadata, indexed_filenames, seen_filenames, cur, attempt,
                   runNo, dlSeqs, dlCalls, sleeps, lastResult, prevExit,
                   recordedAtStart, sizeAtStart, truncated, failedRun>>

\* a novel filename that is indexed but not remembered as seen
NewItem_m(n) ==
  /\ Produces(n) /\ ~BeforeResumePoint(n)
  /\ ItemAt(n).kind \notin {"bad", "nometa"} /\ PassesCutoff(ItemAt(n))
  /\ ItemAt(n).fn \notin seen_filenames
  /\ photo_num' = n
  /\ consecutive_old_photos' = OldReset
  /\ consecutive_duplicates' = 0
  /\ seen_filenames' = seen_filenames
  /\ indexed_filenames' = indexed_filenames \cup {ItemAt(n).fn}
  /\ photo_metadata' = photo_metadata \cup {ItemAt(n).fn}

\* lines 384-400: a novel filename is added to the seen set and the index
NewItem(n) ==
  /\ Produces(n) /\ ~BeforeResumePoint(n)
  /\ ItemAt(n).kind \notin {"bad", "nometa"} /\ PassesCutoff(ItemAt(n))
  /\ ItemAt(n).fn \notin seen_filenames
  /\ photo_num' = n
  /\ consecutive_old_photos' = OldReset
  /\ consecutive_duplicates' = 0
  /\ seen_filenames' = seen_filenames \cup {ItemAt(n).fn}
  /\ indexed_filenames' = indexed_filenames \cup {ItemAt(n).fn}
  /\ photo_metadata' = photo_metadata \cup {ItemAt(n).fn}

\* lines 403-407: already in the downloaded set
AlreadyDownloaded ==
  \E n \in 1..MaxPos :
    /\ NewItem(n)
    /\ ItemAt(n).fn \in downloaded_set
    /\ skipped' = skipped + 1
    /\ UNCHANGED <<auxVars, selVars, delVars, envVars, fileVars, pc, progress, downloaded, failed,
                   downloaded_set, start_idx, cur, attempt, histVars>>

\* lines 409-411, 501-504: photo.created is None, strftime raises
NoCreated ==
  \E n \in 1..MaxPos :
    /\ NewItem(n)
    /\ ItemAt(n).fn \notin downloaded_set
    /\ ItemAt(n).kind = "nocreated"
    /\ failed' = failed + 1
    /\ UNCHANGED <<auxVars, selVars, delVars, envVars, fileVars, pc, progress, downloaded, skipped,
                   downloaded_set, start_idx, cur, attempt, histVars>>

\* lines 418-423: a non-empty file is already at the target path
FileExists ==
  \E n \in 1..MaxPos :
    /\ NewItem(n)
    /\ ItemAt(n).fn \notin downloaded_set
    /\ ItemAt(n).kind # "nocreated"
    /\ file_exists_and_valid(ItemAt(n).fn)
    /\ skipped' = skipped + 1
    /\ downloaded_set' = downloaded_set \cup {ItemAt(n).fn}
    /\ UNCHANGED <<auxVars, selVars, delVars, envVars, fileVars, pc, progress, downloaded, failed,
                   start_idx, cur, attempt, histVars>>

\* line 426: download_photo_with_retry is entered
BeginDownload ==
  \E n \in 1..MaxPos :
    /\ NewItem(n)
    /\ ItemAt(n).fn \notin downloaded_set
    /\ ItemAt(n).kind # "nocreated"
    /\ ~file_exists_and_valid(ItemAt(n).fn)
    /\ pc' = "dl" /\ cur' = ItemAt(n).fn /\ attempt' = 0
    /\ dlSeqs' = [dlSeqs EXCEPT ![ItemAt(n).fn] = @ + 1]
    /\ dlCalls' = 0 /\ sleeps' = 0 /\ lastResult' = "none"
    /\ UNCHANGED <<auxVars, selVars, delVars, envVars, fileVars, progress, downloaded, skipped, failed,
                   downloaded_set, start_idx,
                   runNo, exitBy, endReason, prevExit,
                   recordedAtStart, sizeAtStart, truncated, failedRun>>

\* line 332: the iteration ends (StopIteration), then the final save
Exhausted ==
  /\ pc = "iter" /\ ~HasNext(photo_num)
  /\ FinalSave(photo_num, "exhausted")
  /\ UNCHANGED <<auxVars, selVars, delVars, envVars, downloaded, skipped, failed, downloaded_set, start_idx,
                 photo_metadata, indexed_filenames, seen_filenames, photo_num,
                 consecutive_duplicates, consecutive_old_photos, cur, attempt,
                 runNo, dlSeqs, dlCalls, sleeps, lastResult, prevExit,
                 recordedAtStart, sizeAtStart, truncated, failedRun>>

\* lines 332, 556-561: the iteration primitive raises; the outer handler
\* saves the progress dict as it stands and exits with status 1
TransportError ==
  /\ pc = "iter" /\ photo_num < MaxPos
  /\ progFile' = progress
  /\ pc' = "idle" /\ exitBy' = "fatal"
  /\ UNCHANGED <<auxVars, selVars, delVars, envVars, indexFile, locVars,
                 runNo, endReason, dlSeqs, dlCalls, sleeps, lastResult, prevExit,
                 recordedAtStart, sizeAtStart, truncated, failedRun>>

\* line 332: KeyboardInterrupt while next() runs; the statement is outside
\* the inner try and the outer handler catches Exception only
InterruptAdvance ==
  /\ pc = "iter" /\ photo_num < MaxPos
  /\ pc' = "idle" /\ exitBy' = "interrupt"
  /\ truncated' = NoFile
  /\ UNCHANGED <<auxVars, selVars, delVars, envVars, fileVars, locVars,
                 runNo, endReason, dlSeqs, dlCalls, sleeps, lastResult, prevExit,
                 recordedAtStart, sizeAtStart, failedRun>>

\* lines 340, 480-499: KeyboardInterrupt while the item's fields are read
InterruptBody ==
  \E n \in 1..MaxPos :
    /\ Produces(n) /\ ~BeforeResumePoint(n)
    /\ photo_num' = n
    /\ InterruptSave(n, downloaded_set, photo_metadata, indexed_filenames)
    /\ truncated' = NoFile
    /\ UNCHANGED <<auxVars, selVars, delVars, envVars, downloaded, skipped, failed, downloaded_set, start_idx,
                   photo_metadata, indexed_filenames, seen_filenames,
                   consecutive_duplicates, consecutive_old_photos, cur, attempt,
                   runNo, endReason, dlSeqs, dlCalls, sleeps, lastResult, prevExit,
                   recordedAtStart, sizeAtStart, failedRun>>

\* lines 461-462: after the download the loop saves or goes on
AfterItem == IF CheckpointDue(photo_num) THEN "ckpt" ELSE "iter"

\* lines 105-108, 428-430: download() and the write succeed
AttemptOk ==
  /\ pc = "dl"
  /\ disk' = [disk EXCEPT ![cur] = "full"]
  /\ dlCalls' = dlCalls + 1
  /\ downloaded' = downloaded + 1
  /\ downloaded_set' = downloaded_set \cup {cur}
  /\ lastResult' = "ok"
  /\ pc' = AfterItem
  /\ UNCHANGED <<auxVars, selVars, delVars, remote, cyclic, recent, fileVars, progress, skipped, failed,
                 start_idx, photo_metadata, indexed_filenames, seen_filenames,
                 photo_num, consecutive_duplicates, consecutive_old_photos, cur,
                 attempt, runNo, exitBy, endReason, dlSeqs, sleeps, prevExit,
                 recordedAtStart, sizeAtStart, truncated, failedRun>>

\* a failed attempt that escapes the handler of download_photo_with_retry
AttemptFail_m ==
  /\ pc = "dl"
  /\ dlCalls' = dlCalls + 1
  /\ pc' = "idle" /\ exitBy' = "fatal"
  /\ UNCHANGED <<auxVars, selVars, delVars, envVars, fileVars, locVars,
                 runNo, endReason, dlSeqs, sleeps, lastResult, prevExit,
                 recordedAtStart, sizeAtStart, truncated, failedRun>>

\* lines 109-115, 452-458: the attempt raises; download() raising leaves the
\* target untouched, read() raising leaves the file open() created empty
AttemptFail ==
  \E leave \in {"none", "empty"} :
    /\ pc = "dl"
    /\ disk' = [disk EXCEPT ![cur] = IF leave = "empty" THEN "empty" ELSE @]
    /\ dlCalls' = dlCalls + 1
    /\ IF RetryAgain(attempt)
         THEN /\ pc' = "sleep"
              /\ UNCHANGED <<failed, progress, lastResult, failedRun>>
         ELSE /\ failed' = failed + 1
              /\ progress' = [progress EXCEPT !.failed_files =
                     Append(@, [filename |-> cur, index |-> photo_num])]
              /\ lastResult' = "failed"
              /\ failedRun' = failedRun \cup {cur}
              /\ pc' = AfterItem
    /\ UNCHANGED <<auxVars, selVars, delVars, remote, cyclic, recent, fileVars, downloaded, skipped,
                   downloaded_set, start_idx, photo_metadata, indexed_filenames,
                   seen_filenames, photo_num, consecutive_duplicates,
                   consecutive_old_photos, cur, attempt, runNo, exitBy, endReason,
                   dlSeqs, sleeps, prevExit, recordedAtStart, sizeAtStart, truncated>>

\* line 112: time.sleep(RETRY_DELAY), then the next attempt
RetryDelay ==
  /\ pc = "sleep"
  /\ attempt' = attempt + 1 /\ sleeps' = sleeps + 1
  /\ pc' = "dl"
  /\ UNCHANGED <<auxVars, selVars, delVars, envVars, fileVars, progress, downloaded, skipped, failed,
                 downloaded_set, start_idx, photo_metadata, indexed_filenames,
                 seen_filenames, photo_num, consecutive_duplicates,
                 consecutive_old_photos, cur,
                 runNo, exitBy, endReason, dlSeqs, dlCalls, lastResult, prevExit,
                 recordedAtStart, sizeAtStart, truncated, failedRun>>

\* lines 105-107, 480-499: KeyboardInterrupt during download(), read() or
\* write(): the target is left untouched, empty, or partly written
InterruptDownload ==
  \E trunc \in {"none", "empty", "partial"} :
    /\ pc = "dl"
    /\ disk' = [disk EXCEPT ![cur] = IF trunc = "none" THEN @ ELSE trunc]
    /\ truncated' = IF trunc = "partial" THEN NoFile ELSE cur
    /\ InterruptSave(photo_num, downloaded_set, photo_metadata, indexed_filenames)
    /\ UNCHANGED <<auxVars, selVars, delVars, remote, cyclic, recent, downloaded, skipped, failed,
                   downloaded_set, start_idx, photo_metadata, indexed_filenames,
                   seen_filenames, photo_num, consecutive_duplicates,
                   consecutive_old_photos, cur, attempt,
                   runNo, endReason, dlSeqs, dlCalls, sleeps, lastResult, prevExit,
                   recordedAtStart, sizeAtStart, failedRun>>

\* lines 112, 480-499: KeyboardInterrupt during the retry delay
InterruptSleep ==
  /\ pc = "sleep"
  /\ truncated' = cur
  /\ InterruptSave(photo_num, downloaded_set, photo_metadata, indexed_filenames)
  /\ UNCHANGED <<auxVars, selVars, delVars, envVars, downloaded, skipped, failed,
                 downloaded_set, start_idx, photo_metadata, indexed_filenames,
                 seen_filenames, photo_num, consecutive_duplicates,
                 consecutive_old_photos, cur, attempt,
                 runNo, endReason, dlSeqs, dlCalls, sleeps, lastResult, prevExit,
                 recordedAtStart, sizeAtStart, failedRun>>

\* lines 462-478: periodic save of progress and index
Checkpoint ==
  /\ pc = "ckpt"
  /\ progress' = ProgressWith(progress, photo_num, downloaded_set, downloaded, skipped, failed)
  /\ progFile' = progress'
  /\ indexFile' = IndexWith(indexed_filenames, photo_metadata)
  /\ pc' = "iter"
  /\ UNCHANGED <<auxVars, selVars, delVars, envVars, downloaded, skipped, failed, downloaded_set, start_idx,
                 photo_metadata, indexed_filenames, seen_filenames, photo_num,
                 consecutive_duplicates, consecutive_old_photos, cur, attempt,
                 histVars>>

\* lines 470-476, 480-499: KeyboardInterrupt while the checkpoint is written;
\* the handler writes both files again
InterruptCheckpoint ==
  /\ pc = "ckpt"
  /\ InterruptSave(photo_num, downloaded_set, photo_metadata, indexed_filenames)
  /\ truncated' = NoFile
  /\ UNCHANGED <<auxVars, selVars, delVars, envVars, downloaded, skipped, failed, downloaded_set, start_idx,
                 photo_metadata, indexed_filenames, seen_filenames, photo_num,
                 consecutive_duplicates, consecutive_old_photos, cur, attempt,
                 runNo, endReason, dlSeqs, dlCalls, sleeps, lastResult, prevExit,
                 recordedAtStart, sizeAtStart, failedRun>>

NextDL ==
  \/ Start \/ SkipResumed \/ FieldError \/ SkipOld \/ Duplicate
  \/ AlreadyDownloaded \/ NoCreated \/ FileExists \/ BeginDownload
  \/ Exhausted \/ TransportError \/ InterruptAdvance \/ InterruptBody
  \/ AttemptOk \/ AttemptFail \/ RetryDelay \/ InterruptDownload \/ InterruptSleep
  \/ Checkpoint \/ InterruptCheckpoint

SpecDL == InitDL /\ [][NextDL]_vars

\* before the first run a file is already at the path of a filename (left
\* by another tool or an earlier installation); lines 414-423 meet it
FilePresent ==
  \E f \in Filenames :
    /\ pc = "idle" /\ runNo = 0 /\ disk[f] = "none"
    /\ disk' = [disk EXCEPT ![f] = "full"]
    /\ UNCHANGED <<auxVars, selVars, delVars, remote, cyclic, recent, fileVars,
                   pc, locVars, histVars>>

\* the download task with no transport error and no interrupt; the process
\* is sequential, so a step that can be taken is taken
NextDLQuiet ==
  \/ FilePresent
  \/ Start \/ SkipResumed \/ FieldError \/ SkipOld \/ Duplicate
  \/ AlreadyDownloaded \/ NoCreated \/ FileExists \/ BeginDownload
  \/ Exhausted \/ AttemptOk \/ AttemptFail \/ RetryDelay \/ Checkpoint

SpecDLQuiet == InitDL /\ [][NextDLQuiet]_vars /\ WF_vars(NextDLQuiet)

\* ------------------------------------------------------------ delete task
\* icloud_delete_fast.main (delete_by_criteria.main has the same search loop,
\* batch loop, saves and handlers, lines 290-451)

\* a filter that forgets the failed set
Remaining_m(cands, dset, fset) == cands \ dset

\* line 166: remaining_filenames
Remaining(cands, dset, fset) == (cands \ dset) \ fset

\* a batch test that is off by one
BatchFull_m(b) == Len(b) > BATCH_SIZE

\* line 269
BatchFull(b) == Len(b) >= BATCH_SIZE

\* line 234
SearchLimit(c) == c >= MAX_SEARCH_PHOTOS

\* line 226
AllFound(pm, rem) == Cardinality(DOMAIN pm) = Cardinality(rem)

\* lines 220-221: photo_map[filename] = photo for the first match only
Matched(pm, item, rem) ==
  IF item.fn \in rem /\ item.fn \notin DOMAIN pm
    THEN [f \in DOMAIN pm \cup {item.fn} |-> IF f = item.fn THEN item.id ELSE pm[f]]
    ELSE pm

\* lines 282-288 / 308-314: the progress dict as assigned before a save
DelProgressWith(dset, fset, d, f, s) ==
  [deleted_files |-> dset, failed_files |-> fset,
   stats |-> [deleted |-> d, failed |-> f, skipped |-> s]]

\* photo.delete() takes effect: the asset leaves the collection
RemoveAsset(r, id) == SelectSeq(r, LAMBDA a : a.id # id)

InitDel ==
  /\ remote \in {WithIds(s) : s \in SeqsUpTo(DelAssets, MaxDelAssets) \ {<<>>}}
  /\ cyclic \in BOOLEAN
  /\ recent = FALSE
  /\ disk = [f \in Filenames |-> "none"]
  /\ progFile = EmptyProgress
  /\ indexFile = EmptyIndex
  /\ pc = "idle"
  /\ progress = EmptyDelProgress
  /\ downloaded = 0 /\ skipped = 0 /\ failed = 0
  /\ downloaded_set = {} /\ start_idx = 0
  /\ photo_metadata = {} /\ indexed_filenames = {} /\ seen_filenames = {}
  /\ photo_num = 0 /\ consecutive_duplicates = 0 /\ consecutive_old_photos = 0
  /\ cur = NoFile /\ attempt = 0
  /\ runNo = 0 /\ exitBy = "none" /\ endReason = "none"
  /\ dlSeqs = [f \in Filenames |-> 0] /\ dlCalls = 0 /\ sleeps = 0
  /\ lastResult = "none" /\ prevExit = "none"
  /\ recordedAtStart = {} /\ sizeAtStart = 0 /\ truncated = NoFile
  /\ failedRun = {}
  /\ InitDelVars
  /\ InitAuxVars
  /\ InitSelVars

\* lines 161-166: load the progress, compute what remains
LoadDelete ==
  /\ pc = "idle" /\ runNo < MaxRuns
  /\ progress' = delProgFile
  /\ deleted_set' = delProgFile.deleted_files
  /\ failed_set' = delProgFile.failed_files
  /\ remaining_filenames' =
       Remaining(Candidates, delProgFile.deleted_files, delProgFile.failed_files)
  /\ photo_map' = [f \in {} |-> 0] /\ count' = 0
  /\ batch' = <<>> /\ todo' = {} /\ bpos' = 0
  /\ runNo' = runNo + 1 /\ prevExit' = exitBy
  /\ delOk' = {} /\ delErr' = {} /\ delCalls' = [f \in Candidates |-> 0]
  /\ flushes' = <<>> /\ unsaved' = {}
  /\ deletedAtStart' = delProgFile.deleted_files
  /\ failedAtStart' = delProgFile.failed_files
  /\ delSkip' = {}

\* lines 173-177: nothing remains, the task returns
NothingRemains ==
  /\ LoadDelete
  /\ Remaining(Candidates, delProgFile.deleted_files, delProgFile.failed_files) = {}
  /\ pc' = "idle" /\ exitBy' = "complete" /\ endReason' = "nothing"
  /\ UNCHANGED <<auxVars, selVars, dlOnlyVars, remote, cyclic, skipped, failed, delProgFile,
                 deleted, removed>>

\* lines 185-189: the user does not confirm
DeclineDelete ==
  /\ LoadDelete
  /\ Remaining(Candidates, delProgFile.deleted_files, delProgFile.failed_files) # {}
  /\ pc' = "idle" /\ exitBy' = "declined" /\ endReason' = "declined"
  /\ UNCHANGED <<auxVars, selVars, dlOnlyVars, remote, cyclic, skipped, failed, delProgFile,
                 deleted, removed>>

\* lines 185-208: the user answers yes, the search begins
StartDelete ==
  /\ LoadDelete
  /\ Remaining(Candidates, delProgFile.deleted_files, delProgFile.failed_files) # {}
  /\ pc' = "search" /\ exitBy' = "running" /\ endReason' = "none"
  /\ UNCHANGED <<auxVars, selVars, dlOnlyVars, remote, cyclic, skipped, failed, delProgFile,
                 deleted, removed>>

\* lines 238-256: the search loop is over
SearchEnds(pm) ==
  IF DOMAIN pm = {}
    THEN /\ pc' = "idle" /\ exitBy' = "complete" /\ endReason' = "nomatch"
         /\ UNCHANGED <<deleted, failed, skipped, todo>>
    ELSE /\ pc' = "loop"
         /\ deleted' = progress.stats.deleted
         /\ failed' = progress.stats.failed
         /\ skipped' = progress.stats.skipped
         /\ todo' = remaining_filenames
         /\ UNCHANGED <<exitBy, endReason>>

\* lines 210-236: one item of the search loop whose filename can be read
SearchItem ==
  \E n \in 1..MaxPos :
    /\ pc = "search" /\ HasNext(count) /\ count < MaxPos /\ n = count + 1
    /\ ItemAt(n).kind # "bad"
    /\ count' = n
    /\ photo_map' = Matched(photo_map, ItemAt(n), remaining_filenames)
    /\ IF AllFound(photo_map', remaining_filenames) \/ SearchLimit(n)
         THEN SearchEnds(photo_map')
         ELSE UNCHANGED <<pc, exitBy, endReason, deleted, failed, skipped, todo>>
    /\ UNCHANGED <<auxVars, selVars, dlOnlyVars, delSkip, remote, cyclic, progress, runNo, prevExit,
                   delProgFile, deleted_set, failed_set, remaining_filenames,
                   batch, bpos, delOk, delErr, delCalls, flushes, unsaved,
                   removed, deletedAtStart, failedAtStart>>

\* lines 217, 230-231: photo.filename raises; `continue` skips the safety limit
SearchFieldError ==
  \E n \in 1..MaxPos :
    /\ pc = "search" /\ HasNext(count) /\ count < MaxPos /\ n = count + 1
    /\ ItemAt(n).kind = "bad"
    /\ count' = n
    /\ UNCHANGED <<auxVars, selVars, dlOnlyVars, delSkip, remote, cyclic, pc, progress, skipped, failed,
                   runNo, exitBy, endReason, prevExit,
                   delProgFile, deleted, deleted_set, failed_set,
                   remaining_filenames, photo_map, batch, todo, bpos,
                   delOk, delErr, delCalls, flushes, unsaved,
                   removed, deletedAtStart, failedAtStart>>

\* line 210: the iteration ends
SearchExhausted ==
  /\ pc = "search" /\ ~HasNext(count)
  /\ SearchEnds(photo_map)
  /\ UNCHANGED <<auxVars, selVars, dlOnlyVars, delSkip, remote, cyclic, progress, runNo, prevExit,
                 delProgFile, deleted_set, failed_set, remaining_filenames,
                 photo_map, count, batch, bpos, delOk, delErr, delCalls,
                 flushes, unsaved, removed, deletedAtStart, failedAtStart>>

\* lines 332-337 (KeyboardInterrupt) and 339-344 (Exception): both handlers
\* write the progress dict as it stands and exit
HandlerSave(how) ==
  /\ delProgFile' = progress
  /\ pc' = "idle" /\ exitBy' = how

\* line 210: the iteration primitive raises during the search
SearchTransportError ==
  /\ pc = "search" /\ count < MaxPos
  /\ HandlerSave("fatal")
  /\ UNCHANGED <<auxVars, selVars, dlOnlyVars, delSkip, remote, cyclic, progress, skipped, failed,
                 runNo, endReason, prevExit,
                 deleted, deleted_set, failed_set, remaining_filenames,
                 photo_map, count, batch, todo, bpos, delOk, delErr, delCalls,
                 flushes, unsaved, removed, deletedAtStart, failedAtStart>>

\* line 210: KeyboardInterrupt during the search
InterruptSearch ==
  /\ pc = "search" /\ count < MaxPos
  /\ HandlerSave("interrupt")
  /\ UNCHANGED <<auxVars, selVars, dlOnlyVars, delSkip, remote, cyclic, progress, skipped, failed,
                 runNo, endReason, prevExit,
                 deleted, deleted_set, failed_set, remaining_filenames,
                 photo_map, count, batch, todo, bpos, delOk, delErr, delCalls,
                 flushes, unsaved, removed, deletedAtStart, failedAtStart>>

\* lines 259-263: the next remaining filename was not found in the collection
LoopSkip ==
  \E f \in todo :
    /\ pc = "loop"
    /\ f \notin DOMAIN photo_map
    /\ skipped' = skipped + 1
    /\ delSkip' = delSkip \cup {f}
    /\ todo' = todo \ {f}
    /\ UNCHANGED <<auxVars, selVars, dlOnlyVars, remote, cyclic, pc, progress, failed,
                   runNo, exitBy, endReason, prevExit,
                   delProgFile, deleted, deleted_set, failed_set,
                   remaining_filenames, photo_map, count, batch, bpos,
                   delOk, delErr, delCalls, flushes, unsaved,
                   removed, deletedAtStart, failedAtStart>>

\* lines 265-269: the next remaining filename joins the batch
LoopAppend ==
  \E f \in todo :
    /\ pc = "loop"
    /\ f \in DOMAIN photo_map
    /\ batch' = Append(batch, f)
    /\ todo' = todo \ {f}
    /\ IF BatchFull(batch')
         THEN pc' = "flush" /\ bpos' = 1 /\ flushes' = Append(flushes, Len(batch'))
         ELSE UNCHANGED <<pc, bpos, flushes>>
    /\ UNCHANGED <<auxVars, selVars, dlOnlyVars, delSkip, remote, cyclic, progress, skipped, failed,
                   runNo, exitBy, endReason, prevExit,
                   delProgFile, deleted, deleted_set, failed_set,
                   remaining_filenames, photo_map, count,
                   delOk, delErr, delCalls, unsaved,
                   removed, deletedAtStart, failedAtStart>>

\* lines 294-296: the for-loop is over, a partial batch is flushed
LoopEnd ==
  /\ pc = "loop" /\ todo = {}
  /\ IF batch # <<>>
       THEN pc' = "lastflush" /\ bpos' = 1 /\ flushes' = Append(flushes, Len(batch))
       ELSE pc' = "finalsave" /\ UNCHANGED <<bpos, flushes>>
  /\ UNCHANGED <<auxVars, selVars, dlOnlyVars, delSkip, remote, cyclic, progress, skipped, failed,
                 runNo, exitBy, endReason, prevExit,
                 delProgFile, deleted, deleted_set, failed_set,
                 remaining_filenames, photo_map, count, batch, todo,
                 delOk, delErr, delCalls, unsaved,
                 removed, deletedAtStart, failedAtStart>>

\* a flush loop that goes on to the delay without the progress save
AfterDelete_m ==
  IF bpos < Len(batch)
    THEN bpos' = bpos + 1 /\ UNCHANGED pc
    ELSE bpos' = bpos /\ pc' = (IF pc = "flush" THEN "sleep" ELSE "finalsave")

\* the flush loop moves to the next pair, or the batch is done
AfterDelete ==
  IF bpos < Len(batch)
    THEN bpos' = bpos + 1 /\ UNCHANGED pc
    ELSE bpos' = bpos /\ pc' = (IF pc = "flush" THEN "save" ELSE "finalsave")

\* lines 272-275 / 298-301: p.delete() returns
DeleteOk ==
  /\ pc \in {"flush", "lastflush"}
  /\ remote' = RemoveAsset(remote, photo_map[batch[bpos]])
  /\ deleted' = deleted + 1
  /\ deleted_set' = deleted_set \cup {batch[bpos]}
  /\ delOk' = delOk \cup {batch[bpos]}
  /\ delCalls' = [delCalls EXCEPT ![batch[bpos]] = @ + 1]
  /\ removed' = [removed EXCEPT ![batch[bpos]] = @ + 1]
  /\ unsaved' = unsaved \cup {batch[bpos]}
  /\ AfterDelete
  /\ UNCHANGED <<auxVars, selVars, dlOnlyVars, delSkip, cyclic, progress, skipped, failed,
                 runNo, exitBy, endReason, prevExit,
                 delProgFile, failed_set, remaining_filenames, photo_map, count,
                 batch, todo, delErr, flushes, deletedAtStart, failedAtStart>>

\* a failed delete that is tried again
DeleteFail_m ==
  /\ pc \in {"flush", "lastflush"}
  /\ failed' = failed + 1
  /\ failed_set' = failed_set \cup {batch[bpos]}
  /\ delErr' = delErr \cup {batch[bpos]}
  /\ delCalls' = [delCalls EXCEPT ![batch[bpos]] = @ + 1]
  /\ unsaved' = unsaved \cup {batch[bpos]}
  /\ UNCHANGED <<auxVars, selVars, dlOnlyVars, delSkip, remote, cyclic, pc, bpos, progress, skipped,
                 runNo, exitBy, endReason, prevExit,
                 delProgFile, deleted, deleted_set, remaining_filenames,
                 photo_map, count, batch, todo, delOk, flushes, removed,
                 deletedAtStart, failedAtStart>>

\* lines 276-279 / 302-305: p.delete() raises; the asset stays in the collection
DeleteFail ==
  /\ pc \in {"flush", "lastflush"}
  /\ failed' = failed + 1
  /\ failed_set' = failed_set \cup {batch[bpos]}
  /\ delErr' = delErr \cup {batch[bpos]}
  /\ delCalls' = [delCalls EXCEPT ![batch[bpos]] = @ + 1]
  /\ unsaved' = unsaved \cup {batch[bpos]}
  /\ AfterDelete
  /\ UNCHANGED <<auxVars, selVars, dlOnlyVars, delSkip, remote, cyclic, progress, skipped,
                 runNo, exitBy, endReason, prevExit,
                 delProgFile, deleted, deleted_set, remaining_filenames,
                 photo_map, count, batch, todo, delOk, flushes, removed,
                 deletedAtStart, failedAtStart>>

\* lines 272, 332-337: KeyboardInterrupt during p.delete(); the request may
\* or may not have reached the service
InterruptDelete ==
  \E effect \in BOOLEAN :
    /\ pc \in {"flush", "lastflush"}
    /\ remote' = IF effect THEN RemoveAsset(remote, photo_map[batch[bpos]]) ELSE remote
    /\ removed' = [removed EXCEPT ![batch[bpos]] = IF effect THEN @ + 1 ELSE @]
    /\ delCalls' = [delCalls EXCEPT ![batch[bpos]] = @ + 1]
    /\ HandlerSave("interrupt")
    /\ UNCHANGED <<auxVars, selVars, dlOnlyVars, delSkip, cyclic, progress, skipped, failed,
                   runNo, endReason, prevExit,
                   deleted, deleted_set, failed_set, remaining_filenames,
                   photo_map, count, batch, todo, bpos, delOk, delErr,
                   flushes, unsaved, deletedAtStart, failedAtStart>>

\* lines 281-289: progress is assigned and saved after a full batch
BatchSave ==
  /\ pc = "save"
  /\ progress' = DelProgressWith(deleted_set, failed_set, deleted, failed, skipped)
  /\ delProgFile' = progress'
  /\ unsaved' = {}
  /\ pc' = "sleep"
  /\ UNCHANGED <<auxVars, selVars, dlOnlyVars, delSkip, remote, cyclic, skipped, failed,
                 runNo, exitBy, endReason, prevExit,
                 deleted, deleted_set, failed_set, remaining_filenames,
                 photo_map, count, batch, todo, bpos, delOk, delErr, delCalls,
                 flushes, removed, deletedAtStart, failedAtStart>>

\* lines 289, 332-337: KeyboardInterrupt while save_progress writes; the
\* dict is assigned already and the handler writes it again
InterruptBatchSave ==
  /\ pc = "save"
  /\ progress' = DelProgressWith(deleted_set, failed_set, deleted, failed, skipped)
  /\ delProgFile' = progress'
  /\ unsaved' = {}
  /\ pc' = "idle" /\ exitBy' = "interrupt"
  /\ UNCHANGED <<auxVars, selVars, dlOnlyVars, delSkip, remote, cyclic, skipped, failed,
                 runNo, endReason, prevExit,
                 deleted, deleted_set, failed_set, remaining_filenames,
                 photo_map, count, batch, todo, bpos, delOk, delErr, delCalls,
                 flushes, removed, deletedAtStart, failedAtStart>>

\* lines 291-292: time.sleep(DELAY_BETWEEN_BATCHES); batch = []
BatchDelay ==
  /\ pc = "sleep"
  /\ batch' = <<>> /\ bpos' = 0
  /\ pc' = "loop"
  /\ UNCHANGED <<auxVars, selVars, dlOnlyVars, delSkip, remote, cyclic, progress, skipped, failed,
                 runNo, exitBy, endReason, prevExit,
                 delProgFile, deleted, deleted_set, failed_set,
                 remaining_filenames, photo_map, count, todo,
                 delOk, delErr, delCalls, flushes, unsaved,
                 removed, deletedAtStart, failedAtStart>>

\* lines 291, 332-337: KeyboardInterrupt during the delay
InterruptBatchDelay ==
  /\ pc = "sleep"
  /\ HandlerSave("interrupt")
  /\ UNCHANGED <<auxVars, selVars, dlOnlyVars, delSkip, remote, cyclic, progress, skipped, failed,
                 runNo, endReason, prevExit,
                 deleted, deleted_set, failed_set, remaining_filenames,
                 photo_map, count, batch, todo, bpos, delOk, delErr, delCalls,
                 flushes, unsaved, removed, deletedAtStart, failedAtStart>>

\* lines 307-315: final save, the task ends normally
FinalSaveDelete ==
  /\ pc = "finalsave"
  /\ progress' = DelProgressWith(deleted_set, failed_set, deleted, failed, skipped)
  /\ delProgFile' = progress'
  /\ unsaved' = {}
  /\ pc' = "idle" /\ exitBy' = "complete" /\ endReason' = "done"
  /\ UNCHANGED <<auxVars, selVars, dlOnlyVars, delSkip, remote, cyclic, skipped, failed,
                 runNo, prevExit,
                 deleted, deleted_set, failed_set, remaining_filenames,
                 photo_map, count, batch, todo, bpos, delOk, delErr, delCalls,
                 flushes, removed, deletedAtStart, failedAtStart>>

NextDel ==
  \/ NothingRemains \/ DeclineDelete \/ StartDelete
  \/ SearchItem \/ SearchFieldError \/ SearchExhausted
  \/ SearchTransportError \/ InterruptSearch
  \/ LoopSkip \/ LoopAppend \/ LoopEnd
  \/ DeleteOk \/ DeleteFail \/ InterruptDelete
  \/ BatchSave \/ InterruptBatchSave \/ BatchDelay \/ InterruptBatchDelay
  \/ FinalSaveDelete

SpecDel == InitDel /\ [][NextDel]_vars

\* the delete task with no transport error and no interrupt
NextDelQuiet ==
  \/ NothingRemains \/ DeclineDelete \/ StartDelete
  \/ SearchItem \/ SearchFieldError \/ SearchExhausted
  \/ LoopSkip \/ LoopAppend \/ LoopEnd
  \/ DeleteOk \/ DeleteFail \/ BatchSave \/ BatchDelay \/ FinalSaveDelete

SpecDelQuiet == InitDel /\ [][NextDelQuiet]_vars /\ WF_vars(NextDelQuiet)

\* ------------------------------------------- the confirmation prompt, spelled out
\* str.lower() on the answers
Lower(r) == IF r = "Y" THEN "y" ELSE r

\* a prompt that takes everything but a plain no for a yes
Confirmed_m(r) == Lower(r) # "no"

\* line 187: response.lower() in ['yes', 'y']
Confirmed(r) == Lower(r) \in {"yes", "y"}

\* lines 161-189: progress is loaded, the user is asked and does not confirm;
\* the task returns
PromptDeclined ==
  \E r \in Answers :
    /\ LoadDelete
    /\ Remaining(Candidates, delProgFile.deleted_files, delProgFile.failed_files) # {}
    /\ response' = r /\ ~Confirmed(r)
    /\ pc' = "idle" /\ exitBy' = "declined" /\ endReason' = "declined"
    /\ UNCHANGED <<headAddedAt, mailVars, refVars, stVars, trVars, selVars, dlOnlyVars,
                   remote, cyclic, skipped, failed, delProgFile, deleted, removed>>

\* lines 161-208: progress is loaded, the user is asked and confirms;
\* authentication, then the search begins
PromptConfirmed ==
  \E r \in Answers :
    /\ LoadDelete
    /\ Remaining(Candidates, delProgFile.deleted_files, delProgFile.failed_files) # {}
    /\ response' = r /\ Confirmed(r)
    /\ pc' = "search" /\ exitBy' = "running" /\ endReason' = "none"
    /\ UNCHANGED <<headAddedAt, mailVars, refVars, stVars, trVars, selVars, dlOnlyVars,
                   remote, cyclic, skipped, failed, delProgFile, deleted, removed>>

\* the delete task with the answer at the prompt recorded
NextGate ==
  \/ NothingRemains \/ PromptDeclined \/ PromptConfirmed
  \/ SearchItem \/ SearchFieldError \/ SearchExhausted
  \/ SearchTransportError \/ InterruptSearch
  \/ LoopSkip \/ LoopAppend \/ LoopEnd
  \/ DeleteOk \/ DeleteFail \/ InterruptDelete
  \/ BatchSave \/ InterruptBatchSave \/ BatchDelay \/ InterruptBatchDelay
  \/ FinalSaveDelete

SpecGate == InitDel /\ [][NextGate]_vars

\* ------------------------------------------------------------ candidate scan
\* delete_by_criteria.main, lines 227-240, under any rule configuration
InitSel ==
  /\ criteria \in Configs /\ record = NoMeta
  /\ result = NoMatch /\ isCandidate = FALSE
  /\ remote = <<>> /\ cyclic = FALSE /\ recent = FALSE
  /\ disk = [f \in Filenames |-> "none"]
  /\ progFile = EmptyProgress
  /\ indexFile = EmptyIndex
  /\ pc = "idle"
  /\ progress = EmptyDelProgress
  /\ downloaded = 0 /\ skipped = 0 /\ failed = 0
  /\ downloaded_set = {} /\ start_idx = 0
  /\ photo_metadata = {} /\ indexed_filenames = {} /\ seen_filenames = {}
  /\ photo_num = 0 /\ consecutive_duplicates = 0 /\ consecutive_old_photos = 0
  /\ cur = NoFile /\ attempt = 0
  /\ runNo = 0 /\ exitBy = "none" /\ endReason = "none"
  /\ dlSeqs = [f \in Filenames |-> 0] /\ dlCalls = 0 /\ sleeps = 0
  /\ lastResult = "none" /\ prevExit = "none"
  /\ recordedAtStart = {} /\ sizeAtStart = 0 /\ truncated = NoFile
  /\ failedRun = {}
  /\ InitDelVars
  /\ InitAuxVars

\* lines 237-240: one record of the index is evaluated and, when it matches,
\* appended to candidates
Analyze ==
  \E m \in MetaRecords :
    /\ record' = m
    /\ result' = matches_criteria(m, criteria)
    /\ isCandidate' = result'.matches
    /\ UNCHANGED <<auxVars, criteria, envVars, fileVars, pc, locVars, histVars, delVars>>

NextSel == Analyze

SpecSel == InitSel /\ [][NextSel]_vars

\* =========================================================================
\* SpecGrow: the download task, with the collection growing between runs
\* =========================================================================

\* a new asset appears at the head of the collection (newest first) while
\* no process runs, after a run that completed
AddAtHead ==
  \E f \in Filenames :
    /\ pc = "idle" /\ exitBy = "complete" /\ headAddedAt = 0
    /\ runNo < MaxRuns
    /\ remote' = <<[id |-> Len(remote) + 1, fn |-> f, kind |-> "ok"]>> \o remote
    /\ headAddedAt' = runNo
    /\ UNCHANGED <<cyclic, recent, disk, fileVars, pc, locVars, histVars,
                   delVars, selVars, miscVars, refVars, stVars, trVars>>

NextGrow == NextDL \/ AddAtHead

SpecGrow == InitDL /\ [][NextGrow]_vars

\* ------------------------------------------------ metadata capture that raises
\* the assets of SpecDL and, besides, assets of kind "nometa": one of the
\* fields read for the IndexRecord (lines 390-400) raises something other
\* than AttributeError, which neither hasattr nor getattr swallows
MetaAssets(rec) == DLAssets(rec) \cup [fn : Filenames, kind : {"nometa"}]

MetaCollections(rec) ==
  (SeqsUpTo(MetaAssets(rec), MaxAssets) \ {<<>>})
    \cup (IF rec THEN {OldRun \o s : s \in SeqsUpTo(DLAssets(rec), MaxAssets - 1)}
                 ELSE {})

InitMeta ==
  /\ recent \in BOOLEAN
  /\ remote \in {WithIds(s) : s \in MetaCollections(recent)}
  /\ cyclic \in BOOLEAN
  /\ progFile \in PriorProgress(remote, cyclic)
  /\ disk = [f \in Filenames |-> IF f \in progFile.downloaded_files THEN "full" ELSE "none"]
  /\ indexFile = EmptyIndex
  /\ pc = "idle"
  /\ progress = EmptyProgress
  /\ downloaded = 0 /\ skipped = 0 /\ failed = 0
  /\ downloaded_set = {} /\ start_idx = 0
  /\ photo_metadata = {} /\ indexed_filenames = {} /\ seen_filenames = {}
  /\ photo_num = 0 /\ consecutive_duplicates = 0 /\ consecutive_old_photos = 0
  /\ cur = NoFile /\ attempt = 0
  /\ runNo = 0 /\ exitBy = "none" /\ endReason = "none"
  /\ dlSeqs = [f \in Filenames |-> 0] /\ dlCalls = 0 /\ sleeps = 0
  /\ lastResult = "none" /\ prevExit = "none"
  /\ recordedAtStart = {} /\ sizeAtStart = 0 /\ truncated = NoFile
  /\ failedRun = {}
  /\ InitDelVars
  /\ InitAuxVars
  /\ InitSelVars

\* lines 384-387, 390-400, 501-504: the filename is new and is added to the
\* seen set and to indexed_filenames, then building the record raises; the
\* item is counted failed and the loop goes on
MetadataError ==
  \E n \in 1..MaxPos :
    /\ Produces(n) /\ ~BeforeResumePoint(n)
    /\ ItemAt(n).kind = "nometa" /\ PassesCutoff(ItemAt(n))
    /\ ItemAt(n).fn \notin seen_filenames
    /\ photo_num' = n
    /\ consecutive_old_photos' = OldReset
    /\ consecutive_duplicates' = 0
    /\ seen_filenames' = seen_filenames \cup {ItemAt(n).fn}
    /\ indexed_filenames' = indexed_filenames \cup {ItemAt(n).fn}
    /\ failed' = failed + 1
    /\ UNCHANGED <<auxVars, selVars, delVars, envVars, fileVars, pc, progress,
                   downloaded, skipped, downloaded_set, start_idx,
                   photo_metadata, cur, attempt, histVars>>

NextMeta == NextDL \/ MetadataError

SpecMeta == InitMeta /\ [][NextMeta]_vars

\* lines 400, 516-517: item_type of the record of a filename; the assets of
\* the model carry "b" as a movie
ItemType(f) == IF f = "b" THEN "movie" ELSE "image"

\* lines 516-517, 524-529: the statistics written by the final save
Statistics(names, meta) ==
  [total_items |-> Cardinality(names),
   photos |-> Cardinality({f \in meta : ItemType(f) # "movie"}),
   videos |-> Cardinality({f \in meta : ItemType(f) = "movie"})]

\* =========================================================================
\* SpecRef: update_index_metadata.main
\* =========================================================================

\* all variables of the download and delete tasks at rest
InitEngineIdle ==
  /\ remote = <<>> /\ cyclic = FALSE /\ recent = FALSE
  /\ disk = [f \in Filenames |-> "none"]
  /\ progFile = EmptyProgress
  /\ indexFile = EmptyIndex
  /\ pc = "idle"
  /\ progress = EmptyProgress
  /\ downloaded = 0 /\ skipped = 0 /\ failed = 0
  /\ downloaded_set = {} /\ start_idx = 0
  /\ photo_metadata = {} /\ indexed_filenames = {} /\ seen_filenames = {}
  /\ photo_num = 0 /\ consecutive_duplicates = 0 /\ consecutive_old_photos = 0
  /\ cur = NoFile /\ attempt = 0
  /\ runNo = 0 /\ exitBy = "none" /\ endReason = "none"
  /\ dlSeqs = [f \in Filenames |-> 0] /\ dlCalls = 0 /\ sleeps = 0
  /\ lastResult = "none" /\ prevExit = "none"
  /\ recordedAtStart = {} /\ sizeAtStart = 0 /\ truncated = NoFile
  /\ failedRun = {}
  /\ InitDelVars
  /\ InitSelVars

InitRef ==
  /\ InitEngineIdle
  /\ headAddedAt = 0 /\ InitMiscIdle /\ InitStIdle /\ InitTrIdle
  /\ refRemote \in SeqsUpTo(RefAssets, MaxRefAssets)
  /\ refCyclic \in BOOLEAN
  /\ refIndex \in [metadata : RefIndexes, updated_at : {0}]
  /\ refPc = "idle" /\ refMetadata = NoMetadata
  /\ updated = 0 /\ checked = 0 /\ needs_update = 0
  /\ refSeen = {} /\ refDuplicates = 0 /\ refExit = "none" /\ refRuns = 0

RefItemAt(k) == refRemote[((k - 1) % Len(refRemote)) + 1]
RefHasNext(k) == Len(refRemote) > 0 /\ (refCyclic \/ k < Len(refRemote))

\* line 101: m.get('asset_date') is None
MissingDate(meta) == {f \in DOMAIN meta : meta[f].asset_date = "none"}

\* line 161 (negated): the record of the item is to be updated
NeedsUpdate_m(f, meta) == f \in DOMAIN meta
NeedsUpdate(f, meta) == f \in DOMAIN meta /\ meta[f].asset_date = "none"

\* lines 166-174: the fields written from the remote asset
Refreshed(item) ==
  [asset_date |-> IF item.kind = "ok" THEN "set" ELSE "none", size |-> "s1"]

\* line 177
RefSaveDue(n) == n % REFRESH_SAVE_EVERY = 0

\* lines 198-201: the final save
RefFinalSave(meta) ==
  /\ refIndex' = [metadata |-> meta, updated_at |-> refRuns]
  /\ refPc' = "idle" /\ refExit' = "complete"

refOther == <<engineVars, headAddedAt, miscVars, stVars, trVars>>

\* lines 91-106: every record has its asset_date; nothing to do
RefNothing ==
  /\ refPc = "idle" /\ refRuns < MaxRuns
  /\ MissingDate(refIndex.metadata) = {}
  /\ refRuns' = refRuns + 1
  /\ refMetadata' = refIndex.metadata
  /\ needs_update' = 0
  /\ refExit' = "nothing"
  /\ UNCHANGED <<refRemote, refCyclic, refIndex, refPc, updated, checked,
                 refSeen, refDuplicates, refOther>>

\* lines 112-116: the user does not confirm
RefDecline ==
  /\ refPc = "idle" /\ refRuns < MaxRuns
  /\ MissingDate(refIndex.metadata) # {}
  /\ refRuns' = refRuns + 1
  /\ refMetadata' = refIndex.metadata
  /\ needs_update' = Cardinality(MissingDate(refIndex.metadata))
  /\ refExit' = "cancelled"
  /\ UNCHANGED <<refRemote, refCyclic, refIndex, refPc, updated, checked,
                 refSeen, refDuplicates, refOther>>

\* lines 91-139: load, count, confirm, connect, initialise the loop
RefStart ==
  /\ refPc = "idle" /\ refRuns < MaxRuns
  /\ MissingDate(refIndex.metadata) # {}
  /\ refRuns' = refRuns + 1
  /\ refMetadata' = refIndex.metadata
  /\ needs_update' = Cardinality(MissingDate(refIndex.metadata))
  /\ updated' = 0 /\ checked' = 0 /\ refDuplicates' = 0
  /\ refSeen' = DOMAIN refIndex.metadata
  /\ refPc' = "loop" /\ refExit' = "running"
  /\ UNCHANGED <<refRemote, refCyclic, refIndex, refOther>>

\* line 141: the enumerator hands out item n
RefProduces(n) ==
  /\ refPc = "loop" /\ n = checked + 1 /\ n <= MaxChecked
  /\ RefHasNext(checked)

\* lines 148, 195-196: photo.filename raises
RefFieldError ==
  \E n \in 1..MaxChecked :
    /\ RefProduces(n) /\ RefItemAt(n).kind = "bad"
    /\ checked' = n
    /\ UNCHANGED <<refRemote, refCyclic, refIndex, refPc, refMetadata, updated,
                   needs_update, refSeen, refDuplicates, refExit, refRuns,
                   refOther>>

\* lines 151-156: the filename is not in the index
RefUnknown ==
  \E n \in 1..MaxChecked :
    /\ RefProduces(n) /\ RefItemAt(n).kind # "bad"
    /\ RefItemAt(n).fn \notin refSeen
    /\ checked' = n
    /\ refDuplicates' = refDuplicates + 1
    /\ IF refDuplicates' > REFRESH_MAX_DUPLICATES
         THEN RefFinalSave(refMetadata)
         ELSE UNCHANGED <<refIndex, refPc, refExit>>
    /\ UNCHANGED <<refRemote, refCyclic, refMetadata, updated, needs_update,
                   refSeen, refRuns, refOther>>

\* lines 157-162: the record already has its asset_date
RefSkipDated ==
  \E n \in 1..MaxChecked :
    /\ RefProduces(n) /\ RefItemAt(n).kind # "bad"
    /\ RefItemAt(n).fn \in refSeen
    /\ ~NeedsUpdate(RefItemAt(n).fn, refMetadata)
    /\ checked' = n
    /\ refDuplicates' = 0
    /\ UNCHANGED <<refRemote, refCyclic, refIndex, refPc, refMetadata, updated,
                   needs_update, refSeen, refExit, refRuns, refOther>>

\* lines 166-174, 195-196: reading a field for the update raises; the
\* record is not touched
RefUpdateError ==
  \E n \in 1..MaxChecked :
    /\ RefProduces(n) /\ RefItemAt(n).kind = "err"
    /\ RefItemAt(n).fn \in refSeen
    /\ NeedsUpdate(RefItemAt(n).fn, refMetadata)
    /\ checked' = n
    /\ refDuplicates' = 0
    /\ UNCHANGED <<refRemote, refCyclic, refIndex, refPc, refMetadata, updated,
                   needs_update, refSeen, refExit, refRuns, refOther>>

\* lines 165-185: the record is updated; save at every REFRESH_SAVE_EVERY-th
\* update; leave the loop (and save, lines 198-201) once updated reaches
\* needs_update
RefUpdate ==
  \E n \in 1..MaxChecked :
    /\ RefProduces(n) /\ RefItemAt(n).kind \in {"ok", "nodate"}
    /\ RefItemAt(n).fn \in refSeen
    /\ NeedsUpdate(RefItemAt(n).fn, refMetadata)
    /\ checked' = n
    /\ refDuplicates' = 0
    /\ refMetadata' = [refMetadata EXCEPT ![RefItemAt(n).fn] = Refreshed(RefItemAt(n))]
    /\ updated' = updated + 1
    /\ IF updated' >= needs_update
         THEN RefFinalSave(refMetadata')
         ELSE /\ refIndex' = IF RefSaveDue(updated')
                               THEN [refIndex EXCEPT !.metadata = refMetadata']
                               ELSE refIndex
              /\ UNCHANGED <<refPc, refExit>>
    /\ UNCHANGED <<refRemote, refCyclic, needs_update, refSeen, refRuns, refOther>>

\* line 141, 198-201: the iteration ends
RefExhausted ==
  /\ refPc = "loop" /\ ~RefHasNext(checked)
  /\ RefFinalSave(refMetadata)
  /\ UNCHANGED <<refRemote, refCyclic, refMetadata, updated, checked,
                 needs_update, refSeen, refDuplicates, refRuns, refOther>>

\* lines 187-193: KeyboardInterrupt inside the loop body
RefInterrupt ==
  \E n \in 1..MaxChecked :
    /\ RefProduces(n)
    /\ checked' = n
    /\ refIndex' = [refIndex EXCEPT !.metadata = refMetadata]
    /\ refPc' = "idle" /\ refExit' = "interrupt"
    /\ UNCHANGED <<refRemote, refCyclic, refMetadata, updated, needs_update,
                   refSeen, refDuplicates, refRuns, refOther>>

\* lines 141, 213-217: the iteration primitive raises; exit status 1,
\* nothing is saved
RefTransportError ==
  /\ refPc = "loop" /\ checked < MaxChecked
  /\ refPc' = "idle" /\ refExit' = "fatal"
  /\ UNCHANGED <<refRemote, refCyclic, refIndex, refMetadata, updated, checked,
                 needs_update, refSeen, refDuplicates, refRuns, refOther>>

NextRef ==
  \/ RefNothing \/ RefDecline \/ RefStart
  \/ RefFieldError \/ RefUnknown \/ RefSkipDated \/ RefUpdateError \/ RefUpdate
  \/ RefExhausted \/ RefInterrupt \/ RefTransportError

SpecRef == InitRef /\ [][NextRef]_vars

\* =========================================================================
\* SpecStore: save_progress / load_progress (smart_download.py:53-72,
\* icloud_delete_fast.py:51-69)
\* =========================================================================

InitStore ==
  /\ InitEngineIdle
  /\ headAddedAt = 0 /\ InitMiscIdle /\ InitRefIdle /\ InitTrIdle
  /\ stPrev \in StStates
  /\ stArg = stPrev
  /\ stFile = Encode(stPrev)
  /\ stPc = "idle"
  /\ stLoaded = NotLoaded

stOther == <<engineVars, headAddedAt, miscVars, refVars, trVars>>

\* save_progress: open(PROGRESS_FILE, 'w') creates or truncates the file
SaveOpen ==
  \E s \in StStates :
    /\ stPc = "idle"
    /\ stPc' = "writing"
    /\ stArg' = s
    /\ stFile' = <<>>
    /\ stLoaded' = NotLoaded
    /\ UNCHANGED <<stPrev, stOther>>

\* save_progress: json.dump writes the document piece by piece
SaveWrite ==
  /\ stPc = "writing" /\ Len(stFile) < Len(Encode(stArg))
  /\ stFile' = Append(stFile, Encode(stArg)[Len(stFile) + 1])
  /\ UNCHANGED <<stPc, stArg, stPrev, stLoaded, stOther>>

\* save_progress: the with block closes the file and the call returns
SaveClose ==
  /\ stPc = "writing" /\ Len(stFile) = Len(Encode(stArg))
  /\ stPc' = "idle"
  /\ stPrev' = stArg
  /\ UNCHANGED <<stFile, stArg, stLoaded, stOther>>

\* the process dies inside save_progress (kill, crash, power loss); the file
\* keeps what has been written
SaveKilled ==
  /\ stPc = "writing"
  /\ stPc' = "idle"
  /\ UNCHANGED <<stFile, stArg, stPrev, stLoaded, stOther>>

\* load_progress of a later process: json.load of the file
Load ==
  /\ stPc = "idle"
  /\ stLoaded' = Decode(stFile)
  /\ UNCHANGED <<stFile, stPc, stArg, stPrev, stOther>>

NextStore == SaveOpen \/ SaveWrite \/ SaveClose \/ SaveKilled \/ Load

SpecStore == InitStore /\ [][NextStore]_vars

\* =========================================================================
\* SpecTrash: move_to_trash (auto_cleanup.py:15-32,
\* archive/video_cleanup_review.py:27-44)
\* =========================================================================

InitTrash ==
  /\ InitEngineIdle
  /\ headAddedAt = 0 /\ InitMiscIdle /\ InitRefIdle /\ InitStIdle
  /\ InitTrIdle

trOther == <<engineVars, headAddedAt, miscVars, refVars, stVars>>

\* a file comes to exist at a source path (a download, a copy)
CreateFile ==
  \E p \in TrSources :
    /\ trSrc[p] = 0 /\ trNext < MaxFiles
    /\ trNext' = trNext + 1
    /\ trSrc' = [trSrc EXCEPT ![p] = trNext']
    /\ UNCHANGED <<trTrash, trClock, trMoved, trRet, trOther>>

\* a second passes
Tick ==
  /\ trClock < MaxClock
  /\ trClock' = trClock + 1
  /\ UNCHANGED <<trSrc, trTrash, trNext, trMoved, trRet, trOther>>

\* lines 27-29 / 39-41: the destination, suffixed with the time when taken
Destination(p) ==
  IF trTrash[[rel |-> rel_path(p), stamp |-> NoStamp]] # 0
    THEN [rel |-> rel_path(p), stamp |-> trClock]
    ELSE [rel |-> rel_path(p), stamp |-> NoStamp]

\* move_to_trash(filepath); shutil.move onto an existing file replaces it
move_to_trash ==
  \E p \in TrSources :
    IF trSrc[p] = 0
      THEN /\ trRet' = FALSE
           /\ UNCHANGED <<trSrc, trTrash, trClock, trNext, trMoved, trOther>>
      ELSE /\ trTrash' = [trTrash EXCEPT ![Destination(p)] = trSrc[p]]
           /\ trSrc' = [trSrc EXCEPT ![p] = 0]
           /\ trMoved' = trMoved \cup {trSrc[p]}
           /\ trRet' = TRUE
           /\ UNCHANGED <<trClock, trNext, trOther>>

NextTrash == CreateFile \/ Tick \/ move_to_trash

SpecTrash == InitTrash /\ [][NextTrash]_vars

\* ------------------------------------------------------------ send_summary_email
\* the location keys of the session, listed in ascending order of Python's
\* string comparison
Locations == <<"Austin", "Boston", "Unknown Location">>

\* x[0] < y[0] on location keys
NameBefore(a, b) ==
  \E i, j \in 1..Len(Locations) : Locations[i] = a /\ Locations[j] = b /\ i < j

\* a sort key that looks at the count only
KeyLess_m(x, y) == x.count > y.count

\* line 193: the key (-x[1], x[0]) of x is less than that of y
KeyLess(x, y) ==
  \/ -x.count < -y.count
  \/ x.count = y.count /\ NameBefore(x.location, y.location)

\* sorted() is stable: an item goes before the first one with a greater key
RECURSIVE Insert(_, _)
Insert(x, s) ==
  IF s = <<>> THEN <<x>>
  ELSE IF KeyLess(x, Head(s)) THEN <<x>> \o s
  ELSE <<Head(s)>> \o Insert(x, Tail(s))

\* line 193: sorted(photo_locations.items(), key=...)
RECURSIVE Sorted(_)
Sorted(items) ==
  IF items = <<>> THEN <<>>
  ELSE Insert(items[Len(items)], Sorted(SubSeq(items, 1, Len(items) - 1)))

\* lines 196-197: one line of the body per sorted item
Line(x) == [location |-> x.location, count |-> x.count,
            plural |-> IF x.count # 1 THEN "s" ELSE ""]

\* session_stats['new_downloads']
new_downloads ==
  LET RECURSIVE Sum(_)
      Sum(d) == IF d = <<>> THEN 0 ELSE Head(d).count + Sum(Tail(d))
  IN Sum(photo_locations)

InitMail ==
  /\ InitEngineIdle
  /\ headAddedAt = 0 /\ InitGateIdle /\ InitRefIdle /\ InitStIdle /\ InitTrIdle
  /\ verbose \in BOOLEAN
  /\ photo_locations = <<>> /\ body = <<>> /\ mailPc = "session"

mailOther == <<engineVars, headAddedAt, gateVars, refVars, stVars, trVars>>

\* lines 433-449: a download succeeded, its location key is counted
TrackLocation ==
  \E l \in {Locations[i] : i \in 1..Len(Locations)} :
    /\ mailPc = "session" /\ new_downloads < MaxNew
    /\ photo_locations' =
         IF \E i \in 1..Len(photo_locations) : photo_locations[i].location = l
           THEN [i \in 1..Len(photo_locations) |->
                   IF photo_locations[i].location = l
                     THEN [photo_locations[i] EXCEPT !.count = @ + 1]
                     ELSE photo_locations[i]]
           ELSE Append(photo_locations, [location |-> l, count |-> 1])
    /\ UNCHANGED <<verbose, body, mailPc, mailOther>>

\* lines 551-552, 160-214: the summary of a session with new downloads
send_summary_email ==
  /\ mailPc = "session" /\ new_downloads > 0
  /\ body' = IF verbose
               THEN [i \in 1..Len(photo_locations) |-> Line(Sorted(photo_locations)[i])]
               ELSE <<>>
  /\ mailPc' = "done"
  /\ UNCHANGED <<verbose, photo_locations, mailOther>>

NextMail == TrackLocation \/ send_summary_email

SpecMail == InitMail /\ [][NextMail]_vars

\* ================================================================ claims
Completed == pc = "idle" /\ exitBy = "complete"
Interrupted == pc = "idle" /\ exitBy = "interrupt"

\* every asset of the collection that carries filename f is an ordinary one
Ordinary(f) ==
  /\ \E i \in 1..Len(remote) : remote[i].fn = f
  /\ \A i \in 1..Len(remote) : remote[i].fn = f => remote[i].kind = "ok"

\* C1 (as claimed): when the run restarted after an interrupted run completes,
\* every filename that was pending at the restart has had exactly one download
\* attempt sequence (unless a valid file was already at its path) and no
\* filename recorded by the first run has had any.  Stated for runs without
\* a cutoff date, where every item of the collection is to be processed.
C1_ResumeExactlyOnce ==
  (Completed /\ prevExit = "interrupt" /\ ~recent) =>
    \A f \in Filenames :
      /\ f \in recordedAtStart => dlSeqs[f] = 0
      /\ (f \notin recordedAtStart /\ Ordinary(f)) =>
           (dlSeqs[f] = 1 \/ (dlSeqs[f] = 0 /\ file_exists_and_valid(f)))

\* C2 (as claimed): a completed run that follows a completed run makes no
\* download() call and leaves the size of downloaded_files as it was.
C2_SecondRunIdle ==
  (Completed /\ prevExit = "complete") =>
    /\ \A f \in Filenames : dlSeqs[f] = 0
    /\ Cardinality(progFile.downloaded_files) = sizeAtStart

\* C3 (as claimed): after the delete task exits on a cancellation, the saved
\* progress holds every filename whose delete() returned in this run in
\* deleted_files and every filename whose delete() raised in failed_files.
C3_InterruptSavesBatch ==
  Interrupted =>
    /\ delOk \subseteq delProgFile.deleted_files
    /\ delErr \subseteq delProgFile.failed_files

C5_AtMostOneAsset == \A f \in Candidates : removed[f] <= 1

\* C6 (as claimed): a pass that ends by cycle detection ends on the T-th
\* consecutive already-seen filename.
C6_EndsOnThreshold ==
  (Completed /\ endReason = "cycle") =>
    consecutive_duplicates = MAX_CONSECUTIVE_DUPLICATES

Ceil(n, d) == (n + d - 1) \div d

\* pending items found in the remote collection
FoundCount == Cardinality(DOMAIN photo_map)

\* C7: a delete run that returns normally has flushed ceil(n/N) batches, all of
\* size N except possibly the last, every flushed delete has been saved, and
\* while a batch is being flushed no delete of an earlier batch is unsaved.
C7_BatchBoundary ==
  /\ (Completed /\ endReason \in {"done", "nomatch"}) =>
       /\ Len(flushes) = Ceil(FoundCount, BATCH_SIZE)
       /\ \A i \in 1..Len(flushes) :
            flushes[i] = IF i < Len(flushes) THEN BATCH_SIZE
                         ELSE FoundCount - BATCH_SIZE * (Len(flushes) - 1)
       /\ unsaved = {}
       /\ delOk \subseteq delProgFile.deleted_files
       /\ delErr \subseteq delProgFile.failed_files
  /\ pc \in {"flush", "lastflush"} =>
       unsaved \subseteq {batch[i] : i \in 1..(bpos - 1)}
  /\ pc = "loop" => unsaved = {}

\* C7 witness: a run over more items than one batch holds has ended
C7_Witness ==
  /\ Completed /\ endReason = "done"
  /\ Len(flushes) >= 2 /\ flushes[Len(flushes)] < BATCH_SIZE

\* C8, state part: a filename whose retry sequence was exhausted in this run
\* is in failed_files and not in the downloaded set; when the sequence has
\* just ended in failure, download() was called RETRY_ATTEMPTS times with
\* RETRY_ATTEMPTS - 1 delays.
C8_State ==
  /\ \A f \in failedRun :
       f \in FailedNames(progress) /\ f \notin downloaded_set
  /\ lastResult = "failed" =>
       /\ dlCalls = RETRY_ATTEMPTS /\ sleeps = RETRY_ATTEMPTS - 1
       /\ cur \in failedRun

\* C8, step part: the step that ends a retry sequence in failure counts one
\* failure and appends the filename to failed_files
C8_Step ==
  (lastResult # "failed" /\ lastResult' = "failed") =>
    /\ failed' = failed + 1
    /\ progress'.failed_files =
         Append(progress.failed_files, [filename |-> cur, index |-> photo_num])
    /\ downloaded_set' = downloaded_set

\* C8: retry exhaustion
C8_RetryExhaustion == []C8_State /\ [][C8_Step]_vars

\* C8 witness: a download has just failed on every attempt
C8_Witness ==
  /\ lastResult = "failed" /\ pc \in {"iter", "ckpt"}
  /\ dlCalls = RETRY_ATTEMPTS

\* C9 (as claimed): after the download task exits on an interrupt the progress
\* store holds the state of the run: the cursor and the downloaded set.
C9_InterruptSaved ==
  Interrupted =>
    /\ progFile.last_index = photo_num
    /\ progFile.downloaded_files = downloaded_set

\* C10 (as claimed): when the run that follows an interruption completes, the
\* filename whose download the interruption left missing or empty has been
\* downloaded again.
C10_TruncatedRetried ==
  (Completed /\ prevExit = "interrupt" /\ truncated # NoFile) =>
    dlSeqs[truncated] >= 1

\* C11 (as claimed): in the persisted progress of either task the processed
\* filenames and the failed filenames are disjoint.
C11_ProcessedFailedDisjoint ==
  /\ progFile.downloaded_files \cap FailedNames(progFile) = {}
  /\ delProgFile.deleted_files \cap delProgFile.failed_files = {}

\* C12 (as claimed): in the persisted progress of either task each counter
\* equals the size of its collection.
C12_CountersMatchSets ==
  /\ progFile.stats.downloaded = Cardinality(progFile.downloaded_files)
  /\ progFile.stats.failed = Len(progFile.failed_files)
  /\ delProgFile.stats.deleted = Cardinality(delProgFile.deleted_files)
  /\ delProgFile.stats.failed = Cardinality(delProgFile.failed_files)

\* C13: no save of the download task lowers the cursor in the progress
\* store, whichever path writes it (checkpoint, interrupt handler, final save,
\* fatal-error handler); the collection is the same in every run.
C13_CursorMonotone == [][progFile'.last_index >= progFile.last_index]_vars

\* C13 witness: the fatal-error handler has saved after a checkpoint of the
\* same run, with the loop already past the checkpointed position
C13_Witness ==
  /\ pc = "idle" /\ exitBy = "fatal"
  /\ progFile.last_index > start_idx
  /\ photo_num > progFile.last_index

\* what the rule list of the claim asks of a video: the age known and at
\* least min_age, and the size at least min_size, resp. the duration known
\* and at most max_duration
RuleAsksFor(m, rule) ==
  /\ m.created.form = "iso"
  /\ m.created.days * 100 >= rule.min_age_years * 36525
  /\ IF rule.type = "age_and_size"
       THEN m.size # <<>> /\ m.size[1] >= rule.min_size_mb * 1024 * 1024
       ELSE m.duration # <<>> /\ m.duration[1] <= rule.max_duration_sec

\* the reason the scan reports for a rule type (line 101; line 41 for the
\* rule the code has no reason text for)
ReasonOf(type) ==
  IF type = "age_and_size" THEN "Old large video" ELSE "Old short video"

\* C14 (as claimed): under the default video rules a video is selected with
\* the reason of the first rule of the list it satisfies, and a video that
\* satisfies none is not selected.
C14_FirstRuleReason ==
  (criteria = DEFAULT_CRITERIA /\ record.item_type = "movie") =>
    LET rules == criteria.videos.rules
        hits == {i \in 1..Len(rules) : RuleAsksFor(record, rules[i])}
    IN IF hits = {} THEN result = NoMatch
       ELSE /\ result.matches
            /\ \E i \in hits :
                 /\ \A j \in hits : i <= j
                 /\ result.reason = ReasonOf(rules[i].type)

\* C15: under every rule configuration, a record whose creation timestamp is
\* missing, empty or unparseable, a record that is no video, and a video
\* while videos are disabled, is not matched and not appended to candidates.
C15_FailClosed ==
  (\/ record.created.form # "iso"
   \/ record.item_type # "movie"
   \/ ~criteria.videos.enabled) =>
    (result = NoMatch /\ ~isCandidate)

\* C15 witness: a large video with an unparseable timestamp has been
\* evaluated against an enabled size rule
C15_Witness ==
  /\ record.item_type = "movie" /\ record.created.form = "garbage"
  /\ record.size = <<200 * 1024 * 1024>>
  /\ criteria.videos.enabled
  /\ \E i \in 1..Len(criteria.videos.rules) :
       criteria.videos.rules[i].type = "age_and_size"
  /\ ~isCandidate

\* C16, state part: within one run delete() is invoked at most once per
\* filename, and a filename whose delete() raised is in the failed set and not
\* in the deleted set.
C16_State ==
  /\ \A f \in Candidates : delCalls[f] <= 1
  /\ delErr \subseteq failed_set
  /\ delErr \cap deleted_set = {}

\* C16, step part: the step in which delete() raises adds the filename to the
\* failed set, counts one failure, leaves the deleted set and its counter
\* alone, and goes on with the next item of the batch (or, after the last
\* one, with the save).
C16_Step ==
  (delErr' # delErr /\ runNo' = runNo) =>
    /\ delErr' = delErr \cup {batch[bpos]}
    /\ failed_set' = failed_set \cup {batch[bpos]}
    /\ failed' = failed + 1
    /\ deleted_set' = deleted_set /\ deleted' = deleted
    /\ delCalls'[batch[bpos]] = 1
    /\ IF bpos < Len(batch) THEN bpos' = bpos + 1 /\ pc' = pc
                            ELSE pc' \in {"save", "finalsave"}

\* C16: delete failures are recorded at once and not retried
C16_NoDeleteRetry == []C16_State /\ [][C16_Step]_vars

\* C16 witness: the first delete of a batch raised and the flush is at the
\* second item
C16_Witness ==
  /\ pc \in {"flush", "lastflush"} /\ bpos = 2
  /\ batch[1] \in delErr

\* C17 (as claimed): when a delete run has returned normally, every filename
\* that was pending is in exactly one of: deleted in this run, failed in this
\* run, tallied skipped; a skipped filename is in neither set and had no
\* delete() call.
C17_OneOutcomeEach ==
  Completed =>
    /\ \A f \in remaining_filenames :
         \/ f \in delOk /\ f \notin delErr /\ f \notin delSkip
         \/ f \notin delOk /\ f \in delErr /\ f \notin delSkip
         \/ f \notin delOk /\ f \notin delErr /\ f \in delSkip
    /\ delOk \subseteq delProgFile.deleted_files
    /\ delErr \subseteq delProgFile.failed_files
    /\ \A f \in delSkip :
         /\ f \notin delProgFile.deleted_files \cup delProgFile.failed_files
         /\ delCalls[f] = 0

\* old items seen since the resume position and since the last item that was
\* read and found not old; an item whose filename cannot be read is passed over
RECURSIVE OldCount(_)
OldCount(k) ==
  IF k = 0 \/ k <= start_idx THEN 0
  ELSE IF ItemAt(k).kind = "bad" THEN OldCount(k - 1)
  ELSE IF ItemAt(k).kind = "old" THEN OldCount(k - 1) + 1
  ELSE 0

C18_State ==
  /\ (recent /\ exitBy \in {"running", "complete", "fatal"}) =>
       /\ consecutive_old_photos = OldCount(photo_num)
       /\ IF Completed /\ endReason = "cutoff"
            THEN consecutive_old_photos = MAX_CONSECUTIVE_OLD
            ELSE consecutive_old_photos < MAX_CONSECUTIVE_OLD
  /\ ~recent => (consecutive_old_photos = 0 /\ endReason # "cutoff")

\* C18 (amended), step part: the step that counts an old item indexes nothing
\* and downloads nothing
C18_Step ==
  (consecutive_old_photos' = consecutive_old_photos + 1) =>
    /\ ItemAt(photo_num').kind = "old"
    /\ UNCHANGED <<indexed_filenames, seen_filenames, photo_metadata,
                   downloaded_set, downloaded, skipped, failed, dlSeqs, disk>>
    /\ pc' # "dl"

C19_Step ==
  /\ (photo_num' # photo_num) =>
       \/ photo_num' = photo_num + 1 /\ runNo' = runNo
       \/ photo_num' = 0 /\ runNo' = runNo + 1
  /\ (photo_num' = photo_num + 1 /\ runNo' = runNo /\ photo_num' <= start_idx) =>
       /\ pc' = pc
       /\ UNCHANGED <<indexed_filenames, seen_filenames, photo_metadata,
                      downloaded_set, downloaded, skipped, failed,
                      consecutive_duplicates, consecutive_old_photos,
                      dlSeqs, disk, progress, progFile, indexFile, exitBy>>

C19_ResumePosition == [][C19_Step]_vars

\* C19 witness: a resumed run has skipped the items up to the resume position
\* and is downloading the one after it
C19_Witness ==
  /\ start_idx > 0 /\ photo_num = start_idx + 1 /\ pc = "dl"

\* C20: the step that takes an item whose filename or creation date cannot
\* be read (and that is neither skipped before the read nor interrupted)
\* counts one failure, starts no download, leaves the files alone and leaves
\* the loop at its head, ready for the next item.
C20_Step ==
  (/\ pc = "iter" /\ photo_num' = photo_num + 1 /\ runNo' = runNo
   /\ photo_num' > start_idx
   /\ exitBy' # "interrupt"
   /\ \/ ItemAt(photo_num').kind = "bad"
      \/ /\ ItemAt(photo_num').kind = "nocreated"
         /\ ItemAt(photo_num').fn \notin seen_filenames \cup downloaded_set) =>
    /\ pc' = "iter" /\ exitBy' = "running"
    /\ failed' = failed + 1
    /\ UNCHANGED <<dlSeqs, disk, downloaded_set, downloaded, progFile>>

C20_FieldErrorSkips == [][C20_Step]_vars

\* C20 witness: the item before the one being downloaded could not be read
C20_Witness ==
  /\ pc = "dl" /\ photo_num >= 2 /\ photo_num - 1 > start_idx
  /\ ItemAt(photo_num - 1).kind = "bad"

\* C21 (as claimed): once the iteration primitive has raised and the process
\* has exited with an error, the saved progress holds every filename
\* downloaded in the run and, when the run got past its resume point, its
\* cursor is the last position processed.
C21_FatalSaveCurrent ==
  (pc = "idle" /\ exitBy = "fatal") =>
    /\ downloaded_set \subseteq progFile.downloaded_files
    /\ photo_num > start_idx => progFile.last_index = photo_num

\* C22 (as claimed): whenever the position counter stands at a multiple of
\* SAVE_PROGRESS_EVERY past the resume point and the loop is back at its
\* head, the progress store has been saved at that position.
C22_SavedAtEveryMultiple ==
  (/\ pc = "iter" /\ exitBy = "running"
   /\ photo_num > start_idx /\ CheckpointDue(photo_num)) =>
    progFile.last_index = photo_num

\* C23: every step of the refresh pass keeps the set of index records, on
\* file and in memory; leaves every record that has its asset_date
\* unchanged, on file and in memory; and a step that brings updated to a
\* multiple of REFRESH_SAVE_EVERY leaves the file equal to the metadata in
\* memory.
C23_Step ==
  /\ DOMAIN refIndex'.metadata = DOMAIN refIndex.metadata
  /\ \A f \in DOMAIN refIndex.metadata :
       refIndex.metadata[f].asset_date = "set" =>
         refIndex'.metadata[f] = refIndex.metadata[f]
  /\ (refPc = "loop") =>
       /\ DOMAIN refMetadata' = DOMAIN refMetadata
       /\ \A f \in DOMAIN refMetadata :
            refMetadata[f].asset_date = "set" => refMetadata'[f] = refMetadata[f]
  /\ (updated' = updated + 1 /\ RefSaveDue(updated')) =>
       refIndex'.metadata = refMetadata'

C23_RefreshFrame == [][C23_Step]_vars

\* C23 witness: the pass has made REFRESH_SAVE_EVERY updates and goes on,
\* the file holds them, and a record that needed none is met again
C23_Witness ==
  /\ refPc = "loop" /\ updated = REFRESH_SAVE_EVERY
  /\ refIndex.metadata = refMetadata
  /\ \E f \in RefNames :
       /\ refMetadata[f] = [asset_date |-> "set", size |-> "s0"]
       /\ checked > 0 /\ RefItemAt(checked).fn = f

\* C24 (as claimed): a load that follows a save, completed or cut short at
\* any point, yields a state, and that state is the one saved before or the
\* one being saved.
C24_SaveAtomic ==
  /\ stLoaded.kind # "error"
  /\ stLoaded.kind = "state" => stLoaded.value \in {stPrev, stArg}

\* C27 (as claimed): every file for which move_to_trash returned True is
\* present under some path of the trash directory.
C27_NothingOverwritten ==
  \A id \in trMoved : \E q \in TrashPaths : trTrash[q] = id

C25_DeleteRunCompletes == [](pc # "idle" /\ ~cyclic => <>Completed)

C26_Step ==
  /\ indexFile.filenames \subseteq indexFile'.filenames
  /\ indexFile.metadata \subseteq indexFile'.metadata
  /\ DOMAIN refIndex.metadata \subseteq DOMAIN refIndex'.metadata

C26_IndexKept == [][C26_Step]_vars

\* C26 witness: a second run has written the index again, and the file
\* holds more than one filename
C26_Witness ==
  /\ runNo = 2 /\ pc = "idle" /\ exitBy \in {"complete", "interrupt"}
  /\ indexFile.filenames = Filenames
  /\ indexFile.metadata = Filenames

\* C28 (as claimed): when a run with a cutoff date that started after an
\* asset was added at the head of the collection has completed, that asset
\* (dated within the window) is in the downloaded set or recorded failed.
C28_NewHeadProcessed ==
  (Completed /\ recent /\ headAddedAt > 0 /\ runNo > headAddedAt) =>
    \/ remote[1].fn \in progFile.downloaded_files
    \/ remote[1].fn \in FailedNames(progFile)

\* items past the resume position within which a pass over a repeating
\* collection ends if it ends at all: after one round every readable
\* filename is in seen_filenames, and each further round then adds to
\* consecutive_duplicates (or to consecutive_old_photos) without a reset
PassBound ==
  Len(remote) * (IF MAX_CONSECUTIVE_OLD > MAX_CONSECUTIVE_DUPLICATES + 2
                   THEN MAX_CONSECUTIVE_OLD
                   ELSE MAX_CONSECUTIVE_DUPLICATES + 2)

\* C29 (as claimed): a pass over an enumerator that repeats a finite
\* collection forever ends; it is never still running PassBound items past
\* its resume position.
C29_PassEnds ==
  (cyclic /\ pc # "idle") => photo_num - start_idx <= PassBound

\* items within which a refresh pass over a repeating collection ends if it
\* ends at all: a round that updates a record brings updated closer to
\* needs_update, and rounds that update none repeat unchanged
RefPassBound ==
  Len(refRemote) * (needs_update + REFRESH_MAX_DUPLICATES + 1)

\* C30 (as claimed): a refresh pass over an enumerator that repeats a finite
\* collection of readable assets forever ends; it is never still running
\* RefPassBound items into the enumeration.
C30_RefreshEnds ==
  (/\ refCyclic /\ refPc = "loop"
   /\ \A i \in 1..Len(refRemote) : refRemote[i].kind # "bad") =>
    checked <= RefPassBound

\* C31 (as claimed): once a run over a finite collection, with no cutoff
\* date, has completed, every filename carried by ordinary assets of the
\* collection is in the saved downloaded set with a valid local file, or is
\* recorded in failed_files.
C31_BackupComplete ==
  (Completed /\ ~cyclic /\ ~recent) =>
    \A f \in Filenames :
      Ordinary(f) =>
        \/ f \in progFile.downloaded_files /\ file_exists_and_valid(f)
        \/ f \in FailedNames(progFile)

\* C32, state part: while a batch is flushed, delete() has been invoked on
\* exactly the entries before the current position, in the order they were
\* appended, and when the first delete of a batch is due every delete of the
\* batches before it has been saved.
C32_State ==
  pc \in {"flush", "lastflush"} =>
    /\ bpos \in 1..Len(batch)
    /\ \A i \in 1..Len(batch) :
         delCalls[batch[i]] = (IF i < bpos THEN 1 ELSE 0)
    /\ bpos = 1 => unsaved = {}

\* C32, step part: a delete() call is made on the entry at the current
\* position only; after the last delete of a full batch, succeeded or failed,
\* comes the progress save, after the save the fixed delay, and only after the
\* delay is the batch emptied and the next one built, unless the run is
\* interrupted.
C32_Step ==
  /\ (delCalls' # delCalls /\ runNo' = runNo) =>
       /\ pc \in {"flush", "lastflush"}
       /\ delCalls' = [delCalls EXCEPT ![batch[bpos]] = @ + 1]
       /\ batch' = batch
       /\ \/ pc' = pc /\ bpos' = bpos + 1
          \/ bpos = Len(batch) /\ pc' \in {"save", "finalsave"}
          \/ pc' = "idle" /\ exitBy' = "interrupt"
  /\ (pc = "flush" /\ pc' # pc) =>
       \/ pc' = "save" /\ bpos = Len(batch) /\ delCalls'[batch[bpos]] = 1
       \/ pc' = "idle" /\ exitBy' = "interrupt"
  /\ (pc = "save" /\ pc' # pc) =>
       /\ delProgFile' =
            DelProgressWith(deleted_set, failed_set, deleted, failed, skipped)
       /\ delCalls' = delCalls
       /\ pc' = "sleep" \/ (pc' = "idle" /\ exitBy' = "interrupt")
  /\ (pc = "sleep" /\ pc' # pc) =>
       /\ delCalls' = delCalls
       /\ (pc' = "loop" /\ batch' = <<>>) \/ (pc' = "idle" /\ exitBy' = "interrupt")
  /\ (pc' \in {"flush", "lastflush"} /\ pc' # pc) =>
       pc = "loop" /\ bpos' = 1

\* C32: deletes go one at a time in batch order, and a progress save followed
\* by the fixed delay separates the deletes of a full batch from those of the
\* next batch
C32_RateAndOrder == []C32_State /\ [][C32_Step]_vars

\* C32 witness: a full batch with a failed delete has been flushed, saved and
\* delayed, and the first delete of the next batch is due
C32_Witness ==
  /\ pc \in {"flush", "lastflush"} /\ bpos = 1
  /\ Len(flushes) = 2 /\ flushes[1] = BATCH_SIZE
  /\ delErr # {}

\* C33, state part: within one run no filename gets a second download
\* sequence.
C33_State == \A f \in Filenames : dlSeqs[f] <= 1

\* C33, step part: an item that reaches the seen test with a filename seen
\* before starts no download and changes neither the local files, the counters,
\* the downloaded set, the failed list nor the index contents; the stores are
\* written only if the item trips the cycle detection and so ends the run
\* (a KeyboardInterrupt while the item is handled ends the run with its own
\* save).
C33_Step ==
  (/\ pc = "iter" /\ runNo' = runNo /\ photo_num' = photo_num + 1
   /\ exitBy' # "interrupt"
   /\ ~BeforeResumePoint(photo_num + 1)
   /\ ItemAt(photo_num + 1).kind # "bad" /\ PassesCutoff(ItemAt(photo_num + 1))
   /\ ItemAt(photo_num + 1).fn \in seen_filenames) =>
    /\ pc' # "dl"
    /\ UNCHANGED <<dlSeqs, dlCalls, disk, downloaded, skipped, failed,
                   downloaded_set, photo_metadata, indexed_filenames,
                   seen_filenames>>
    /\ progress'.failed_files = progress.failed_files
    /\ IF CycleDetected(consecutive_duplicates + 1)
         THEN pc' = "idle" /\ endReason' = "cycle"
         ELSE pc' = "iter" /\ UNCHANGED <<progFile, indexFile, progress>>

\* C33: a filename is considered at most once per run
C33_ConsideredOnce == []C33_State /\ [][C33_Step]_vars

\* C33 witness: the enumerator has produced a filename again whose download
\* failed earlier in the same run, and the run goes on
C33_Witness ==
  /\ pc = "iter" /\ photo_num >= 2 /\ consecutive_duplicates >= 1
  /\ ItemAt(photo_num).fn \in FailedNames(progress)
  /\ dlSeqs[ItemAt(photo_num).fn] = 1

\* C34 (as claimed): an item past the resume point and the cutoff whose
\* filename is in the downloaded set, or whose target path holds a non-empty
\* file, starts no download and is counted skipped, and in the second case its
\* filename is added to the downloaded set.
C34_Step ==
  LET item == ItemAt(photo_num + 1)
      recorded == item.fn \in downloaded_set
      present == item.kind # "nocreated" /\ file_exists_and_valid(item.fn)
  IN (/\ pc = "iter" /\ runNo' = runNo /\ photo_num' = photo_num + 1
      /\ exitBy' # "interrupt"
      /\ ~BeforeResumePoint(photo_num + 1)
      /\ item.kind # "bad" /\ PassesCutoff(item)
      /\ recorded \/ present) =>
       /\ pc' # "dl" /\ dlSeqs' = dlSeqs /\ disk' = disk
       /\ skipped' = skipped + 1
       /\ ~recorded => item.fn \in downloaded_set'

C34_SkipsPresent == [][C34_Step]_vars

\* the user typed yes or y, in either case of letters
C35_SaidYes == response \in {"yes", "y", "Y"}

\* C35, state part: a delete run is past its prompt (authentication, search,
\* deletes, saves) only if the user said yes, and every filename on which
\* delete() was invoked in the run is in the remaining set: a candidate
\* recorded neither deleted nor failed when the run began.
C35_State ==
  /\ pc # "idle" => C35_SaidYes
  /\ \A f \in Candidates :
       delCalls[f] > 0 =>
         /\ C35_SaidYes
         /\ f \in remaining_filenames
         /\ f \notin deletedAtStart \cup failedAtStart

\* C35, step part: the progress store and the remote collection change, and
\* delete() is invoked, only in a run whose prompt was answered yes; a run
\* whose prompt was answered otherwise ends at the prompt.
C35_Step ==
  /\ (\/ delProgFile' # delProgFile \/ remote' # remote
      \/ (delCalls' # delCalls /\ runNo' = runNo)) =>
       pc # "idle" /\ C35_SaidYes
  /\ (runNo' # runNo /\ response' \notin {"yes", "y", "Y"}) =>
       /\ pc' = "idle" /\ delProgFile' = delProgFile /\ remote' = remote
       /\ \A f \in Candidates : delCalls'[f] = 0

\* C35: nothing is deleted, searched or saved without a yes at the prompt
C35_ConfirmationGate == []C35_State /\ [][C35_Step]_vars

\* C35 witness: a run was declined with an empty answer after an earlier run,
\* confirmed with Y, had deleted and recorded a file
C35_Witness ==
  /\ pc = "idle" /\ exitBy = "declined" /\ response = ""
  /\ runNo = 2 /\ delProgFile.deleted_files # {}

\* C36 (as claimed): the search pass of the delete task never takes more than
\* MAX_SEARCH_PHOTOS items from the enumerator, and it is over as soon as every
\* remaining filename has been matched.
C36_SearchBounded ==
  /\ count <= MAX_SEARCH_PHOTOS
  /\ pc = "search" => DOMAIN photo_map # remaining_filenames

\* C37 (as claimed): in every index the download task has persisted, the
\* filename set equals the key set of the record map and photo_count is the
\* size of the filename set.
C37_IndexConsistent ==
  /\ indexFile.filenames = indexFile.metadata
  /\ indexFile.photo_count = Cardinality(indexFile.filenames)

\* C38 (as claimed): when a pass has completed, every filename of the saved
\* index has a record, and the saved statistics agree with the records:
\* photos + videos = total_items = number of filenames, videos being the
\* number of records of kind movie.
C38_AggregatesAgree ==
  Completed =>
    LET statistics == Statistics(indexFile.filenames, indexFile.metadata)
    IN /\ indexFile.filenames \subseteq indexFile.metadata
       /\ statistics.photos + statistics.videos = statistics.total_items
       /\ statistics.total_items = Cardinality(indexFile.filenames)
       /\ statistics.videos =
            Cardinality({f \in indexFile.metadata : ItemType(f) = "movie"})

\* C39: in the summary that was sent, the per-location lines are in order of
\* count descending and, for equal counts, of location name ascending, and
\* every location of the session has exactly one line, with its count.
C39_LinesOrdered ==
  (mailPc = "done" /\ verbose) =>
    /\ \A i, j \in 1..Len(body) :
         i < j =>
           \/ body[i].count > body[j].count
           \/ /\ body[i].count = body[j].count
              /\ NameBefore(body[i].location, body[j].location)
    /\ \A k \in 1..Len(photo_locations) :
         Cardinality({i \in 1..Len(body) :
                        body[i].location = photo_locations[k].location}) = 1
    /\ Len(body) = Len(photo_locations)
    /\ \A i \in 1..Len(body) :
         \E k \in 1..Len(photo_locations) :
           /\ photo_locations[k].location = body[i].location
           /\ photo_locations[k].count = body[i].count

\* C39 witness: a summary of three locations was sent in which two locations
\* have the same count and were first met in the reverse of their name order
C39_Witness ==
  /\ mailPc = "done" /\ verbose /\ Len(body) = 3
  /\ \E i, j \in 1..3 :
       /\ i < j
       /\ photo_locations[i].count = photo_locations[j].count
       /\ NameBefore(photo_locations[j].location, photo_locations[i].location)

====
